---- MODULE Spec2Model ----
(***************************************************************************)
(* Paper-trading engine: the daily run (jobs/daily-trade.js), the live     *)
(* trade of StrategyService, the Portfolio/Trade stores and the decision   *)
(* table.                                                                  *)
(*                                                                         *)
(* Units.  Prices, stop-loss and target levels are in hundredths of a      *)
(* rupee (10000 = 100.00); every price of the model is a multiple of 100,  *)
(* so price * 0.95, * 0.96, * 1.10 and * 1.12 are exact integers.          *)
(* Sentiment values are in hundredths (-80 = -0.80).  Dates and the fields *)
(* no operation reads back (buyDate, sellDate, timestamp, rsiAtEntry,      *)
(* newsSentiment of a Trade) are left out of the stored records.           *)
(***************************************************************************)
EXTENDS Integers, Sequences, FiniteSets, TLC

\* ------------------------------------------------------------------ bounds
MaxPositions == 2   \* Portfolio documents that are explored
MaxOrders == 3      \* broker acknowledgements that are explored
MaxFaults == 1      \* external calls (store, broker) that fail

\* --------------------------------------------------------- configuration
WATCHLIST == <<"RELIANCE", "TCS">>
CAPITAL == 100000
RISK_PERCENT == 2

Symbols == {WATCHLIST[n] : n \in 1..Len(WATCHLIST)}

\* ---------------------------------------------------------------- inputs
NoValue == 0 - 1    \* a field that was never set (undefined / null)
NaN == 0 - 2        \* parseFloat of an absent variable; Math.floor(NaN)
Prices == {9400, 10000, 10400}
\* the quotes explored per symbol: every price for the first symbol of the
\* watch-list, one price for the others
PricesOf == [symbol \in Symbols |-> IF symbol = WATCHLIST[1] THEN Prices ELSE {10000}]
\* the quotes explored for the sizing: one the risk amount buys, one it does
\* not buy at multiplier 1
SizingPrices == [symbol \in Symbols |->
                    IF symbol = WATCHLIST[1] THEN {10000, 210000} ELSE {10000}]
\* the one quote explored when two runs overlap, and for a live-trade buy
OnePrice == [symbol \in Symbols |-> {10000}]
\* the sentiments processNews gives a symbol
NewsSent == [symbol \in Symbols |-> {0 - 100, 0 - 50, 0}]
NoNews == [symbol \in Symbols |-> {0}]
Signal == {"STRONG_BUY", "BUY", "HOLD", "SELL", "STRONG_SELL"}
\* the sentiments around the thresholds of the two handlers, for the first
\* symbol of the watch-list
HarnessSent ==
    [symbol \in Symbols |->
        IF symbol = WATCHLIST[1] THEN {0 - 100, 0 - 90, 0 - 80, 0 - 50, 0} ELSE {0}]

\* JavaScript comparisons with an undefined operand are false.
Lt(a, b) == a # NoValue /\ b # NoValue /\ a < b
Le(a, b) == a # NoValue /\ b # NoValue /\ a <= b
Ge(a, b) == a # NoValue /\ b # NoValue /\ a >= b

\* ------------------------------------------------------------ the schemas
PortfolioExitReasons == {"STRATEGY", "STOP_LOSS", "TARGET_HIT"}
TradeExitReasons == {"STRATEGY", "STOP_LOSS", "TARGET_HIT", "null"}
TradeActions == {"BUY", "SELL", "HOLD"}

\* the paths of the two schemas; in strict mode a value given for any other
\* path is not stored and reads back as undefined
PortfolioPaths == {"symbol", "buyPrice", "quantity", "buyDate", "sold", "sellPrice",
                   "sellDate", "stopLoss", "target", "exitReason"}
TradePaths == {"symbol", "action", "price", "quantity", "timestamp", "exitReason",
               "rsiAtEntry", "newsSentiment", "capitalUsed"}
Strict(paths, path, value, absent) == IF path \in paths THEN value ELSE absent

\* ----------------------------------------------------------- pure helpers
\* variant: rounded up
calculateQuantityCeil(price, riskPercent, multiplier10) ==
    ((CAPITAL * riskPercent * multiplier10 * 100) + (100 * 10 * price) - 1)
        \div (100 * 10 * price)

calculateQuantity(price, riskPercent, multiplier10) ==
    IF riskPercent = NaN THEN NaN ELSE
    (CAPITAL * riskPercent * multiplier10 * 100) \div (100 * 10 * price)

positionMultiplier(action) == IF action = "STRONG_BUY" THEN 15 ELSE 10

\* variant: the stop is set at the entry price
stopLossLevelAtPrice(action, currentPrice) == currentPrice

stopLossLevel(action, currentPrice) ==
    IF action = "STRONG_BUY" THEN (currentPrice * 96) \div 100
                             ELSE (currentPrice * 95) \div 100

targetLevel(action, currentPrice) ==
    IF action = "STRONG_BUY" THEN (currentPrice * 112) \div 100
                             ELSE (currentPrice * 110) \div 100

\* getTradingSignal: moving-average cross-over, RSI level and MACD; any
\* exception inside it is caught and yields HOLD.
getTradingSignal(crossedAbove, crossedBelow, currentRSI, macdAbove, threw) ==
    IF threw THEN "HOLD"
    ELSE IF crossedAbove /\ currentRSI < 30 /\ macdAbove THEN "BUY"
    ELSE IF crossedAbove /\ currentRSI < 30 THEN "BUY"
    ELSE IF crossedBelow /\ currentRSI > 70 THEN "SELL"
    ELSE "HOLD"

TradingSignals ==
    [symbol \in Symbols |->
        {getTradingSignal(a, b, r, m, t) :
            a \in BOOLEAN, b \in BOOLEAN, r \in {25, 50, 75},
            m \in BOOLEAN, t \in BOOLEAN}]

\* every Signal for the first symbol of the watch-list
HarnessSignals ==
    [symbol \in Symbols |->
        IF symbol = WATCHLIST[1] THEN Signal ELSE TradingSignals[symbol]]

\* breakeven ratchet condition of handleExistingPositions
RatchetApplies(currentPrice, holding) ==
    /\ currentPrice * 100 > holding.buyPrice * 103
    /\ Lt(holding.stopLoss, holding.buyPrice)

\* variant: the smaller of the two
Min2(a, b) == IF a <= b THEN a ELSE b

\* Math.max
Max2(a, b) == IF a >= b THEN a ELSE b

\* variant: the signal is tested before the two price conditions
ExitReasonOfSignalFirst(currentPrice, holding, action, newsSentiment) ==
    IF action = "SELL" \/ action = "STRONG_SELL" THEN
        IF newsSentiment < 0 - 50 /\ action = "SELL" THEN "STRATEGY_NEWS"
        ELSE IF newsSentiment < 0 - 80 /\ action = "STRONG_SELL" THEN "STRATEGY_NEWS"
        ELSE "STRATEGY"
    ELSE IF Le(currentPrice, holding.stopLoss) THEN "STOP_LOSS"
    ELSE IF Ge(currentPrice, holding.target) THEN "TARGET_HIT"
    ELSE "null"

\* exit conditions of handleExistingPositions, in the order of the code
ExitReasonOf(currentPrice, holding, action, newsSentiment) ==
    IF Le(currentPrice, holding.stopLoss) THEN "STOP_LOSS"
    ELSE IF Ge(currentPrice, holding.target) THEN "TARGET_HIT"
    ELSE IF action = "SELL" \/ action = "STRONG_SELL" THEN
        IF newsSentiment < 0 - 50 /\ action = "SELL" THEN "STRATEGY_NEWS"
        ELSE IF newsSentiment < 0 - 80 /\ action = "STRONG_SELL" THEN "STRATEGY_NEWS"
        ELSE "STRATEGY"
    ELSE "null"

\* variant: the early return is never taken
AlreadyHavePositionNever(activeHoldings) == FALSE

\* the early return of checkForBuyOpportunities
AlreadyHavePosition(activeHoldings) == Len(activeHoldings) > 0

\* variant: the thresholds themselves suppress
EntrySuppressedInclusive(action, newsSentiment) ==
    \/ newsSentiment <= 0 - 80 /\ action = "BUY"
    \/ newsSentiment <= 0 - 90 /\ action = "STRONG_BUY"

\* the negative-news suppression of checkForBuyOpportunities
EntrySuppressed(action, newsSentiment) ==
    \/ newsSentiment < 0 - 80 /\ action = "BUY"
    \/ newsSentiment < 0 - 90 /\ action = "STRONG_BUY"

\* variant: every signal but HOLD opens a position
EntryQuantityAnySignal(currentPrice, action, newsSentiment, riskPercent) ==
    IF action # "HOLD" THEN
        IF EntrySuppressed(action, newsSentiment) THEN 0
        ELSE LET quantity == calculateQuantity(currentPrice, riskPercent,
                                               positionMultiplier(action))
             IN IF quantity # NaN /\ quantity <= 0 THEN 0 ELSE quantity
    ELSE 0

\* the quantity to buy, 0 when the entry check ends without an order
EntryQuantity(currentPrice, action, newsSentiment, riskPercent) ==
    IF action = "BUY" \/ action = "STRONG_BUY" THEN
        IF EntrySuppressed(action, newsSentiment) THEN 0
        ELSE LET quantity == calculateQuantity(currentPrice, riskPercent,
                                               positionMultiplier(action))
             IN \* NaN <= 0 is false
                IF quantity # NaN /\ quantity <= 0 THEN 0 ELSE quantity
    ELSE 0

\* ------------------------------------------------- the decision table
RsiTrends == {"STRONGLY_BULLISH", "BULLISH", "STRONGLY_BEARISH", "BEARISH",
              "VOLATILE", "NEUTRAL", "UNKNOWN"}
SentimentTrends == {"NEUTRAL", "IMPROVING", "DETERIORATING"}
RsiValues == {20, 25, 27, 30, 50, 70, 72, 75, 80}
SentimentValues == {0 - 60, 0 - 50, 0 - 30, 0 - 20, 0, 20, 30, 50, 60}
NewsCounts == {2, 3, 4, 5}

\* String.prototype.includes on the trends analyzeRsiTrend returns
TrendIncludes(trend, word) ==
    IF word = "BULLISH" THEN trend \in {"BULLISH", "STRONGLY_BULLISH"}
    ELSE IF word = "BEARISH" THEN trend \in {"BEARISH", "STRONGLY_BEARISH"}
    ELSE trend = word

\* variant: the RSI thresholds are inclusive
technicalConditionsInclusive(currentRSI) ==
    [isStronglyOversold |-> currentRSI <= 25,
     isOversold |-> currentRSI <= 30,
     isStronglyOverbought |-> currentRSI >= 75,
     isOverbought |-> currentRSI >= 70]

\* variant: 70 itself counts as overbought
technicalConditionsOverboughtAt70(currentRSI) ==
    [isStronglyOversold |-> currentRSI < 25,
     isOversold |-> currentRSI < 30,
     isStronglyOverbought |-> currentRSI > 75,
     isOverbought |-> currentRSI >= 70]

\* the derived conditions evaluateStock hands to determineTradeDecision
technicalConditions(currentRSI) ==
    [isStronglyOversold |-> currentRSI < 25,
     isOversold |-> currentRSI < 30,
     isStronglyOverbought |-> currentRSI > 75,
     isOverbought |-> currentRSI > 70]

\* variant: two news items are sufficient
sentimentConditionsTwoItems(avgSentiment, newsCount) ==
    [isStrongBullish |-> avgSentiment > 50,
     isBullish |-> avgSentiment > 20,
     isStrongBearish |-> avgSentiment < 0 - 50,
     isBearish |-> avgSentiment < 0 - 20,
     hasSufficientNews |-> newsCount >= 2,
     hasHighVolumeNews |-> newsCount >= 5]

sentimentConditions(avgSentiment, newsCount) ==
    [isStrongBullish |-> avgSentiment > 50,
     isBullish |-> avgSentiment > 20,
     isStrongBearish |-> avgSentiment < 0 - 50,
     isBearish |-> avgSentiment < 0 - 20,
     hasSufficientNews |-> newsCount >= 3,
     hasHighVolumeNews |-> newsCount >= 5]

Factors(currentRSI, rsiTrend, avgSentiment, newsCount, recentTrend) ==
    [rsi |-> [current |-> currentRSI, trend |-> rsiTrend],
     sentiment |-> [value |-> avgSentiment, count |-> newsCount, trend |-> recentTrend],
     technicalConditions |-> technicalConditions(currentRSI),
     sentimentConditions |-> sentimentConditions(avgSentiment, newsCount)]

\* variant: the two trend-confirmation rules come before the SELL rule
determineTradeDecisionConfluenceFirst(factors) ==
    LET rsi == factors.rsi
        sentiment == factors.sentiment
        t == factors.technicalConditions
        c == factors.sentimentConditions
    IN IF t.isStronglyOversold /\ c.isStrongBullish /\ c.hasSufficientNews
          /\ TrendIncludes(rsi.trend, "BULLISH")
       THEN "STRONG_BUY"
       ELSE IF \/ t.isOversold /\ c.isBullish /\ c.hasSufficientNews
               \/ t.isOversold /\ sentiment.trend = "IMPROVING" /\ c.hasSufficientNews
       THEN "BUY"
       ELSE IF t.isStronglyOverbought /\ c.isStrongBearish /\ c.hasSufficientNews
               /\ TrendIncludes(rsi.trend, "BEARISH")
       THEN "STRONG_SELL"
       ELSE IF rsi.trend = "STRONGLY_BULLISH" /\ sentiment.trend = "IMPROVING"
               /\ c.hasHighVolumeNews
       THEN "BUY"
       ELSE IF rsi.trend = "STRONGLY_BEARISH" /\ sentiment.trend = "DETERIORATING"
               /\ c.hasHighVolumeNews
       THEN "SELL"
       ELSE IF \/ t.isOverbought /\ c.isBearish /\ c.hasSufficientNews
               \/ t.isOverbought /\ sentiment.trend = "DETERIORATING" /\ c.hasSufficientNews
       THEN "SELL"
       ELSE "HOLD"

determineTradeDecision(factors) ==
    LET rsi == factors.rsi
        sentiment == factors.sentiment
        t == factors.technicalConditions
        c == factors.sentimentConditions
    IN IF t.isStronglyOversold /\ c.isStrongBullish /\ c.hasSufficientNews
          /\ TrendIncludes(rsi.trend, "BULLISH")
       THEN "STRONG_BUY"
       ELSE IF \/ t.isOversold /\ c.isBullish /\ c.hasSufficientNews
               \/ t.isOversold /\ sentiment.trend = "IMPROVING" /\ c.hasSufficientNews
       THEN "BUY"
       ELSE IF t.isStronglyOverbought /\ c.isStrongBearish /\ c.hasSufficientNews
               /\ TrendIncludes(rsi.trend, "BEARISH")
       THEN "STRONG_SELL"
       ELSE IF \/ t.isOverbought /\ c.isBearish /\ c.hasSufficientNews
               \/ t.isOverbought /\ sentiment.trend = "DETERIORATING" /\ c.hasSufficientNews
       THEN "SELL"
       ELSE IF rsi.trend = "STRONGLY_BULLISH" /\ sentiment.trend = "IMPROVING"
               /\ c.hasHighVolumeNews
       THEN "BUY"
       ELSE IF rsi.trend = "STRONGLY_BEARISH" /\ sentiment.trend = "DETERIORATING"
               /\ c.hasHighVolumeNews
       THEN "SELL"
       ELSE "HOLD"

\* ------------------------------------------------------- the RSI trend
\* longest series analyzeRsiTrend is given (evaluateStock passes slice(-5))
MaxSeries == 5

RsiLevels == {30, 32, 35, 36, 42}

SeqsUpTo(S, n) == UNION {[1..k -> S] : k \in 0..n}

ExampleSeries == {<<30, 32, 35, 38, 40>>, <<50, 45, 40, 42, 30>>}

\* Math.max(...rsiData) and Math.min(...rsiData)
RECURSIVE MaxOf(_)
MaxOf(s) ==
    IF Len(s) = 1 THEN s[1]
    ELSE LET m == MaxOf(Tail(s)) IN IF s[1] >= m THEN s[1] ELSE m

RECURSIVE MinOf(_)
MinOf(s) ==
    IF Len(s) = 1 THEN s[1]
    ELSE LET m == MinOf(Tail(s)) IN IF s[1] <= m THEN s[1] ELSE m

\* variant: the range test comes before the change tests
analyzeRsiTrendVolatileFirst(rsiData) ==
    IF Len(rsiData) < 2 THEN "UNKNOWN"
    ELSE LET rsiChange == rsiData[Len(rsiData)] - rsiData[1]
             isVolatile == MaxOf(rsiData) - MinOf(rsiData) > 10
         IN IF isVolatile THEN "VOLATILE"
            ELSE IF rsiChange > 5 THEN "STRONGLY_BULLISH"
            ELSE IF rsiChange > 2 THEN "BULLISH"
            ELSE IF rsiChange < 0 - 5 THEN "STRONGLY_BEARISH"
            ELSE IF rsiChange < 0 - 2 THEN "BEARISH"
            ELSE "NEUTRAL"

analyzeRsiTrend(rsiData) ==
    IF Len(rsiData) < 2 THEN "UNKNOWN"
    ELSE LET firstRSI == rsiData[1]
             lastRSI == rsiData[Len(rsiData)]
             rsiChange == lastRSI - firstRSI
             maxRSI == MaxOf(rsiData)
             minRSI == MinOf(rsiData)
             isVolatile == maxRSI - minRSI > 10
         IN IF rsiChange > 5 THEN "STRONGLY_BULLISH"
            ELSE IF rsiChange > 2 THEN "BULLISH"
            ELSE IF rsiChange < 0 - 5 THEN "STRONGLY_BEARISH"
            ELSE IF rsiChange < 0 - 2 THEN "BEARISH"
            ELSE IF isVolatile THEN "VOLATILE"
            ELSE "NEUTRAL"

\* ------------------------------------------------- the news sentiment
\* most samples of one symbol in one day's window
MaxSamples == 3

\* sentiment samples, in hundredths
SampleValues == {0 - 60, 0, 60}

RECURSIVE SumOf(_)
SumOf(s) == IF s = <<>> THEN 0 ELSE s[1] + SumOf(Tail(s))

\* News.aggregate([$match, $group]) on the samples of one window: no group
\* when nothing matches
aggregate(samples) ==
    IF samples = <<>> THEN <<>>
    ELSE <<[avgSentiment |-> SumOf(samples) \div Len(samples),
            count |-> Len(samples)]>>

\* variant: the two thresholds are inclusive
getNewsSentimentInclusive(todaySamples, yesterdaySamples) ==
    LET todaySentiment == aggregate(todaySamples)
        yesterdaySentiment == aggregate(yesterdaySamples)
        todayAvgSentiment ==
            IF todaySentiment = <<>> THEN 0 ELSE todaySentiment[1].avgSentiment
        todayCount == IF todaySentiment = <<>> THEN 0 ELSE todaySentiment[1].count
        yesterdayAvgSentiment ==
            IF yesterdaySentiment = <<>> THEN 0 ELSE yesterdaySentiment[1].avgSentiment
    IN [avgSentiment |-> todayAvgSentiment,
        newsCount |-> todayCount,
        recentTrend |->
            IF todayAvgSentiment <= yesterdayAvgSentiment - 30 THEN "DETERIORATING"
            ELSE IF todayAvgSentiment >= yesterdayAvgSentiment + 30 THEN "IMPROVING"
            ELSE "NEUTRAL"]

\* getNewsSentiment on the samples the two queries match; x?.f || 0 is 0 when
\* there is no group and when f is 0
getNewsSentiment(todaySamples, yesterdaySamples) ==
    LET todaySentiment == aggregate(todaySamples)
        yesterdaySentiment == aggregate(yesterdaySamples)
        todayAvgSentiment ==
            IF todaySentiment = <<>> THEN 0 ELSE todaySentiment[1].avgSentiment
        todayCount == IF todaySentiment = <<>> THEN 0 ELSE todaySentiment[1].count
        yesterdayAvgSentiment ==
            IF yesterdaySentiment = <<>> THEN 0 ELSE yesterdaySentiment[1].avgSentiment
        improving ==
            IF todayAvgSentiment > yesterdayAvgSentiment + 30
            THEN "IMPROVING" ELSE "NEUTRAL"
        recentTrend ==
            IF todayAvgSentiment < yesterdayAvgSentiment - 30
            THEN "DETERIORATING" ELSE improving
    IN [avgSentiment |-> todayAvgSentiment,
        newsCount |-> todayCount,
        recentTrend |-> recentTrend]

\* ------------------------------------------------------- evaluateStock
\* default period of getRSI
Period == 14

\* null, where a series is expected
NoSeries == <<NoValue>>

\* the symbol arguments: a ticker, the empty string, a number
SymbolArgs ==
    {[type |-> "string", value |-> WATCHLIST[1]],
     [type |-> "string", value |-> ""],
     [type |-> "number", value |-> "7"]}

\* series RSI.calculate gives: flat at a level, or rising by 3 a day to 20
\* after a first value of 90 when longer than 5
Flat(level, n) == [i \in 1..n |-> level]

Ramp(n) == [i \in 1..n |-> IF i = 1 /\ n > 5 THEN 90 ELSE 20 - 3 * (n - i)]

\* yahooFinance.chart: it fails, or it gives quotes of which some have a
\* close, and RSI.calculate gives closes - period values from the closes
Charts ==
    {[ok |-> ok, quotes |-> closes + nulls, closes |-> closes, rsi |-> rsi] :
        ok \in BOOLEAN, nulls \in {0, 1}, closes \in {0, 13, 14, 16, 17, 20},
        rsi \in {<<>>, Flat(20, 2), Flat(20, 3), Flat(80, 6), Ramp(2), Ramp(3), Ramp(6)}}

\* getRSI: null on any failure, the full series otherwise
getRSI(chart, period) ==
    IF ~chart.ok \/ chart.quotes = 0 \/ chart.closes < period
    THEN NoSeries
    ELSE chart.rsi

\* rsiData.slice(-5)
Slice5(rsiData) ==
    IF Len(rsiData) <= 5 THEN rsiData ELSE SubSeq(rsiData, Len(rsiData) - 4, Len(rsiData))

\* the two News.aggregate queries: they fail, or match these samples
Queries ==
    [fails : BOOLEAN,
     today : {<<>>, <<60, 60>>, <<60, 60, 60>>, <<0 - 60, 0 - 60, 0 - 60>>},
     yesterday : {<<>>, <<60>>}]

\* the body of evaluateStock's try block: what it returns ("throws" when an
\* exception leaves it) and the trend it classified ("none" when it did not
\* get that far)
evaluateStockTry(symbol, chart, query) ==
    IF symbol.type # "string" \/ symbol.value = ""
    THEN [outcome |-> "throws", rsiTrend |-> "none"]
    ELSE LET rsiData == getRSI(chart, Period)
         IN IF rsiData = NoSeries \/ Len(rsiData) < 3
            THEN [outcome |-> "HOLD", rsiTrend |-> "none"]
            ELSE LET currentRSI == rsiData[Len(rsiData)]
                     rsiTrend == analyzeRsiTrend(Slice5(rsiData))
                     sentimentData == getNewsSentiment(query.today, query.yesterday)
                 IN IF query.fails
                    THEN [outcome |-> "throws", rsiTrend |-> rsiTrend]
                    ELSE [outcome |->
                              determineTradeDecision(
                                  Factors(currentRSI, rsiTrend,
                                          sentimentData.avgSentiment,
                                          sentimentData.newsCount,
                                          sentimentData.recentTrend)),
                          rsiTrend |-> rsiTrend]

\* variant: no catch around the body
evaluateStockUncaught(symbol, chart, query) ==
    LET try == evaluateStockTry(symbol, chart, query)
    IN [returned |-> IF try.outcome = "throws" THEN "none" ELSE try.outcome,
        threw |-> try.outcome = "throws",
        rsiTrend |-> try.rsiTrend]

\* evaluateStock: the body, and HOLD from the catch
evaluateStock(symbol, chart, query) ==
    LET try == evaluateStockTry(symbol, chart, query)
    IN [returned |-> IF try.outcome = "throws" THEN "HOLD" ELSE try.outcome,
        threw |-> FALSE,
        rsiTrend |-> try.rsiTrend]

\* ------------------------------------------------------------------ state
VARIABLES
    positions,    \* Portfolio collection: symbol -> documents in insertion order
    trades,       \* Trade collection: symbol -> documents in insertion order
    orders,       \* orders the broker acknowledged: symbol -> sequence
    rs,           \* executeDailyTrades invocation -> its local state
    faults,       \* failed external calls so far
    eval,         \* the evaluateStock call under study: its inputs, its result
    config        \* config/index.js as the environment of the process gives it

vars == <<positions, trades, orders, rs, faults, eval, config>>

Runs == {1, 2}      \* the scheduled trigger and the manual trigger

IdleRun == [pc |-> "idle", i |-> 0, news |-> FALSE, price |-> NoValue,
            action |-> "HOLD", ns |-> 0, hs |-> <<>>, k |-> 0,
            reason |-> "null", qty |-> 0]

EmptyStore == [s \in Symbols |-> <<>>]

\* no evaluateStock call is under study
NotEvaluated == [current |-> 50, rsiTrend |-> "UNKNOWN", value |-> 0, count |-> 0,
                 trend |-> "NEUTRAL", decision |-> "none"]

Init ==
    /\ positions = EmptyStore
    /\ trades = EmptyStore
    /\ orders = EmptyStore
    /\ rs = [r \in Runs |-> IdleRun]
    /\ faults = 0
    /\ eval = NotEvaluated
    /\ config = [RISK_PERCENT |-> RISK_PERCENT]

\* The stores, the broker's acknowledgements and the runs' locals as one
\* value: every step below maps such a value to the set of values the step
\* can leave, one per outcome of its external call.
World == [positions |-> positions, trades |-> trades, orders |-> orders,
          rs |-> rs, faults |-> faults, config |-> config]

Becomes(w) ==
    /\ positions' = w.positions
    /\ trades' = w.trades
    /\ orders' = w.orders
    /\ rs' = w.rs
    /\ faults' = w.faults
    /\ UNCHANGED <<eval, config>>

\* ------------------------------------------------------------- the stores
\* Portfolio.find({symbol, sold: false}): the documents as read, each with
\* its _id (the index in the collection)
FindActive(store, symbol) ==
    LET RECURSIVE Scan(_)
        Scan(n) ==
            IF n > Len(store[symbol]) THEN <<>>
            ELSE IF store[symbol][n].sold THEN Scan(n + 1)
            ELSE <<[id |-> n,
                    buyPrice |-> store[symbol][n].buyPrice,
                    quantity |-> store[symbol][n].quantity,
                    stopLoss |-> store[symbol][n].stopLoss,
                    target |-> store[symbol][n].target]>> \o Scan(n + 1)
    IN Scan(1)

\* new Portfolio({...}): sold defaults to false, the other fields are unset;
\* signalStrength and profitLoss are kept only if the schema has the path
NewPosition(buyPrice, quantity, stopLoss, target, signalStrength) ==
    [buyPrice |-> buyPrice, quantity |-> quantity, stopLoss |-> stopLoss,
     target |-> target, sold |-> FALSE, sellPrice |-> NoValue,
     exitReason |-> "null",
     signalStrength |-> Strict(PortfolioPaths, "signalStrength", signalStrength, "undefined"),
     profitLoss |-> NoValue, currentValue |-> NoValue]

\* variant: the update is stored whatever the schema says
updateOneUnchecked(doc, currentPrice) ==
    [doc EXCEPT !.currentValue = currentPrice * doc.quantity,
                !.profitLoss = (currentPrice - doc.buyPrice) * doc.quantity]

\* Portfolio.updateOne({_id}, {currentValue, profitLoss, lastUpdated}) of the
\* evening job
updateOne(doc, currentPrice) ==
    [doc EXCEPT !.currentValue = Strict(PortfolioPaths, "currentValue",
                                        currentPrice * doc.quantity, @),
                !.profitLoss = Strict(PortfolioPaths, "profitLoss",
                                      (currentPrice - doc.buyPrice) * doc.quantity, @)]

\* schema validation of a Portfolio document on save
PortfolioValid(doc) ==
    /\ doc.buyPrice # NoValue
    /\ doc.quantity # NoValue
    /\ doc.quantity # NaN
    /\ doc.exitReason \in PortfolioExitReasons \cup {"null"}

\* new Trade({...}) keeps the fields of the schema; extra holds what the
\* caller gives for profitLoss, profitLossPercent and signalStrength
NewTrade(action, price, quantity, exitReason, capitalUsed, extra) ==
    [action |-> action, price |-> price, quantity |-> quantity,
     exitReason |-> exitReason,
     capitalUsed |-> Strict(TradePaths, "capitalUsed", capitalUsed, NoValue),
     profitLoss |-> Strict(TradePaths, "profitLoss", extra.profitLoss, NoValue),
     profitLossPercent |->
         Strict(TradePaths, "profitLossPercent", extra.profitLossPercent, NoValue),
     signalStrength |->
         Strict(TradePaths, "signalStrength", extra.signalStrength, "undefined")]

\* the fields a caller leaves out
NoExtra == [profitLoss |-> NoValue, profitLossPercent |-> NoValue,
            signalStrength |-> "undefined"]

\* the P&L handleExistingPositions computes for a holding: the amount in
\* hundredths of a rupee, the percentage in hundredths of a percent (cut)
unrealizedPnL(currentPrice, holding) ==
    (currentPrice - holding.buyPrice) * holding.quantity
pnlPercent(currentPrice, holding) ==
    ((currentPrice * 10000) \div holding.buyPrice) - 10000

\* schema validation of a Trade document on save
TradeValid(doc) ==
    /\ doc.action \in TradeActions
    /\ doc.price # NoValue
    /\ doc.quantity # NoValue
    /\ doc.quantity # NaN
    /\ doc.exitReason \in TradeExitReasons

\* an external call may fail while the budget of failures lasts
Failing(w, outcome) ==
    IF w.faults < MaxFaults THEN {[outcome EXCEPT !.faults = w.faults + 1]} ELSE {}

\* ------------------------------------------------- executeDailyTrades
SymbolOf(w, r) == WATCHLIST[w.rs[r].i]
Holding(w, r) == w.rs[r].hs[w.rs[r].k]

\* variant: after the last symbol the loop starts over with the first
NextSymbolStartingOver(w, r) ==
    [w EXCEPT !.rs[r] = [IdleRun EXCEPT !.pc = "symbol",
                                        !.i = (w.rs[r].i % Len(WATCHLIST)) + 1,
                                        !.news = w.rs[r].news]]

\* the for-of loop over the watch-list moves on: after the symbol's two
\* handlers, after `continue`, and from the catch block of the symbol
NextSymbol(w, r) ==
    IF w.rs[r].i < Len(WATCHLIST)
    THEN [w EXCEPT !.rs[r] = [IdleRun EXCEPT !.pc = "symbol", !.i = w.rs[r].i + 1,
                                             !.news = w.rs[r].news]]
    ELSE [w EXCEPT !.rs[r] = [IdleRun EXCEPT !.pc = "summary"]]

\* variant: the exception of the symbol ends the run
SymbolCatchRethrow(w, r) == [w EXCEPT !.rs[r] = IdleRun]

\* variant: the symbol is tried again
SymbolCatchRetry(w, r) == [w EXCEPT !.rs[r].pc = "symbol"]

\* the catch block of the symbol: the exception is logged and the loop goes
\* on with the next symbol
SymbolCatch(w, r) == NextSymbol(w, r)

\* the loop over activeHoldings moves on, then checkForBuyOpportunities
NextHolding(w, r) ==
    IF w.rs[r].k < Len(w.rs[r].hs)
    THEN [w EXCEPT !.rs[r].pc = "exit", !.rs[r].k = w.rs[r].k + 1,
                   !.rs[r].reason = "null"]
    ELSE [w EXCEPT !.rs[r].pc = "entry", !.rs[r].hs = <<>>, !.rs[r].k = 0,
                   !.rs[r].reason = "null"]

\* One symbol of the loop up to the first store read: getCurrentPrice,
\* getTradingSignal, the symbol's sentiment in newsData (0 when processNews
\* failed or newsData has no item of the symbol), Portfolio.find of
\* handleExistingPositions.
BeginSymbol(w, r, quotes, signals, sentiments) ==
    LET activeHoldings == FindActive(w.positions, SymbolOf(w, r))
    IN \* getCurrentPrice returned null: skip the symbol
       {NextSymbol(w, r)}
       \* Portfolio.find throws: caught at the symbol boundary
       \cup Failing(w, SymbolCatch(w, r))
       \cup {[w EXCEPT !.rs[r].price = currentPrice,
                       !.rs[r].action = action,
                       !.rs[r].ns = newsSentiment,
                       !.rs[r].hs = activeHoldings,
                       !.rs[r].k = IF activeHoldings = <<>> THEN 0 ELSE 1,
                       !.rs[r].pc = IF activeHoldings = <<>> THEN "entry" ELSE "exit"] :
               currentPrice \in quotes[SymbolOf(w, r)],
               action \in signals[SymbolOf(w, r)],
               newsSentiment \in IF w.rs[r].news
                                 THEN sentiments[SymbolOf(w, r)] \cup {0} ELSE {0}}

\* handleExistingPositions for one holding, up to placeOrder: the breakeven
\* ratchet with its save, then the exit conditions.
ExitCheck(w, r) ==
    LET holding == Holding(w, r)
        ratchet == RatchetApplies(w.rs[r].price, holding)
        updated == IF ratchet
                   THEN [holding EXCEPT !.stopLoss = Max2(holding.stopLoss, holding.buyPrice)]
                   ELSE holding
        saved == IF ratchet
                 THEN [w EXCEPT !.positions[SymbolOf(w, r)][holding.id].stopLoss = updated.stopLoss]
                 ELSE w
        exitReason == ExitReasonOf(w.rs[r].price, updated, w.rs[r].action, w.rs[r].ns)
    IN \* holding.save() of the ratchet throws: caught at the symbol boundary
       (IF ratchet THEN Failing(w, SymbolCatch(w, r)) ELSE {})
       \cup {IF exitReason = "null"
             THEN NextHolding(saved, r)
             ELSE [saved EXCEPT !.rs[r].pc = "sellOrder",
                                !.rs[r].reason = exitReason,
                                !.rs[r].hs[w.rs[r].k] = updated]}

\* variant: a failed placeOrder is ignored and the exit is committed
SellOrderIgnoringFailure(w, r) ==
    Failing(w, [w EXCEPT !.rs[r].pc = "sellSave"])
    \cup {[w EXCEPT !.orders[SymbolOf(w, r)] =
                        Append(@, [side |-> "SELL", quantity |-> Holding(w, r).quantity,
                                   holding |-> Holding(w, r).id]),
                    !.rs[r].pc = "sellSave"]}

\* placeOrder for the exit; a failure is caught by the try of the exit and
\* the loop goes to the next holding
SellOrder(w, r) ==
    Failing(w, NextHolding(w, r))
    \cup {[w EXCEPT !.orders[SymbolOf(w, r)] =
                        Append(@, [side |-> "SELL", quantity |-> Holding(w, r).quantity,
                                   holding |-> Holding(w, r).id]),
                    !.rs[r].pc = "sellSave"]}

\* holding.save() with the sale fields; a validation error or a store
\* failure is caught by the try of the exit
SellSave(w, r) ==
    LET id == Holding(w, r).id
        doc == [w.positions[SymbolOf(w, r)][id] EXCEPT
                   !.sold = TRUE, !.sellPrice = w.rs[r].price,
                   !.exitReason = w.rs[r].reason,
                   !.profitLoss = Strict(PortfolioPaths, "profitLoss",
                                         unrealizedPnL(w.rs[r].price, Holding(w, r)), @)]
    IN IF ~PortfolioValid(doc)
       THEN {NextHolding(w, r)}
       ELSE Failing(w, NextHolding(w, r))
            \cup {[w EXCEPT !.positions[SymbolOf(w, r)][id] = doc,
                            !.rs[r].pc = "sellTrade"]}

\* new Trade({action: 'SELL', ...}).save()
SellTrade(w, r) ==
    LET holding == Holding(w, r)
        doc == NewTrade("SELL", w.rs[r].price, holding.quantity, w.rs[r].reason,
                        holding.buyPrice * holding.quantity,
                        [profitLoss |-> unrealizedPnL(w.rs[r].price, holding),
                         profitLossPercent |-> pnlPercent(w.rs[r].price, holding),
                         signalStrength |-> "undefined"])
    IN IF ~TradeValid(doc)
       THEN {NextHolding(w, r)}
       ELSE Failing(w, NextHolding(w, r))
            \cup {NextHolding([w EXCEPT !.trades[SymbolOf(w, r)] = Append(@, doc)], r)}

\* variant: one open Position in the whole portfolio bars every entry
EntryCheckWholePortfolio(w, r) ==
    LET quantity == EntryQuantity(w.rs[r].price, w.rs[r].action, w.rs[r].ns,
                                  w.config.RISK_PERCENT)
    IN Failing(w, SymbolCatch(w, r))
       \cup {IF (\E symbol \in Symbols : FindActive(w.positions, symbol) # <<>>)
                \/ quantity = 0
             THEN NextSymbol(w, r)
             ELSE [w EXCEPT !.rs[r].pc = "buyOrder", !.rs[r].qty = quantity]}

\* checkForBuyOpportunities up to placeOrder: Portfolio.find, the early
\* return, the signal test, the suppression and the quantity
EntryCheck(w, r) ==
    LET activeHoldings == FindActive(w.positions, SymbolOf(w, r))
        quantity == EntryQuantity(w.rs[r].price, w.rs[r].action, w.rs[r].ns,
                                  w.config.RISK_PERCENT)
    IN \* Portfolio.find throws: caught at the symbol boundary
       Failing(w, SymbolCatch(w, r))
       \cup {IF AlreadyHavePosition(activeHoldings) \/ quantity = 0
             THEN NextSymbol(w, r)
             ELSE [w EXCEPT !.rs[r].pc = "buyOrder", !.rs[r].qty = quantity]}

\* placeOrder for the entry; a failure is caught by the try of the entry
BuyOrder(w, r) ==
    Failing(w, NextSymbol(w, r))
    \cup {[w EXCEPT !.orders[SymbolOf(w, r)] =
                        Append(@, [side |-> "BUY", quantity |-> w.rs[r].qty,
                                   holding |-> 0]),
                    !.rs[r].pc = "buySave"]}

\* new Portfolio({...}).save() of the entry
BuySave(w, r) ==
    LET doc == NewPosition(w.rs[r].price, w.rs[r].qty,
                           stopLossLevel(w.rs[r].action, w.rs[r].price),
                           targetLevel(w.rs[r].action, w.rs[r].price),
                           w.rs[r].action)
    IN IF ~PortfolioValid(doc)
       THEN {NextSymbol(w, r)}
       ELSE Failing(w, NextSymbol(w, r))
            \cup {[w EXCEPT !.positions[SymbolOf(w, r)] = Append(@, doc),
                            !.rs[r].pc = "buyTrade"]}

\* new Trade({action: 'BUY', ...}).save() of the entry
BuyTrade(w, r) ==
    LET doc == NewTrade("BUY", w.rs[r].price, w.rs[r].qty, "null",
                        w.rs[r].price * w.rs[r].qty,
                        [NoExtra EXCEPT !.signalStrength = w.rs[r].action])
    IN IF ~TradeValid(doc)
       THEN {NextSymbol(w, r)}
       ELSE Failing(w, NextSymbol(w, r))
            \cup {NextSymbol([w EXCEPT !.trades[SymbolOf(w, r)] = Append(@, doc)], r)}

\* the step a run takes from where it is suspended inside a symbol
HandlerStep(w, r) ==
    CASE w.rs[r].pc = "exit" -> ExitCheck(w, r)
      [] w.rs[r].pc = "sellOrder" -> SellOrder(w, r)
      [] w.rs[r].pc = "sellSave" -> SellSave(w, r)
      [] w.rs[r].pc = "sellTrade" -> SellTrade(w, r)
      [] w.rs[r].pc = "entry" -> EntryCheck(w, r)
      [] w.rs[r].pc = "buyOrder" -> BuyOrder(w, r)
      [] w.rs[r].pc = "buySave" -> BuySave(w, r)
      [] w.rs[r].pc = "buyTrade" -> BuyTrade(w, r)
      [] OTHER -> {}

\* handleExistingPositions and checkForBuyOpportunities run to their end
RECURSIVE RunHandlers(_, _)
RunHandlers(w, r) ==
    IF w.rs[r].pc \in {"symbol", "summary", "idle"} THEN {w}
    ELSE UNION {RunHandlers(u, r) : u \in HandlerStep(w, r)}

\* the body of the for-of loop for one symbol, with every outcome
processSymbol(w, r, quotes, signals, sentiments) ==
    UNION {RunHandlers(u, r) : u \in BeginSymbol(w, r, quotes, signals, sentiments)}

\* ------------------------------------ StrategyService.executeTrade, 'buy'
\* findOne({symbol, sold: false}); when there is none, newPosition.save()
\* and the BUY Trade; every exception is caught and logged
executeTradeBuy(w, symbol, quantity, currentPrice) ==
    LET position == NewPosition(currentPrice, quantity, NoValue, NoValue, "undefined")
        trade == NewTrade("BUY", currentPrice, quantity, "null", NoValue, NoExtra)
        saved == [w EXCEPT !.positions[symbol] = Append(@, position)]
        logged == [saved EXCEPT !.trades[symbol] = Append(@, trade)]
    IN Failing(w, w)
       \cup (IF FindActive(w.positions, symbol) # <<>> THEN {w}
             ELSE IF ~PortfolioValid(position) THEN {w}
             ELSE Failing(w, w)
                  \cup (IF ~TradeValid(trade) THEN {saved}
                        ELSE Failing(saved, saved) \cup {logged}))

\* ------------------------------------------------------------- the actions
\* the exploration stops at MaxPositions Portfolio documents and MaxOrders
\* acknowledged orders
RECURSIVE TotalLen(_, _)
TotalLen(store, n) ==
    IF n = 0 THEN 0 ELSE Len(store[WATCHLIST[n]]) + TotalLen(store, n - 1)

Explored(w) ==
    /\ TotalLen(w.positions, Len(WATCHLIST)) <= MaxPositions
    /\ TotalLen(w.orders, Len(WATCHLIST)) <= MaxOrders

\* The trigger (scheduled job or POST /test-trade): processNews, then
\* executeDailyTrades up to the start of the loop.  A failing processNews of
\* the trigger ends it before the run; a weekend ends the run at once; a
\* failing processNews of the run is caught and the run goes on without
\* newsData.
Trigger(r, exclusive) ==
    /\ rs[r].pc = "idle"
    /\ exclusive => \A q \in Runs : rs[q].pc = "idle"
    /\ \E triggerNewsOk \in BOOLEAN, weekend \in BOOLEAN, newsOk \in BOOLEAN :
        IF triggerNewsOk /\ ~weekend
        THEN rs' = [rs EXCEPT ![r] = [IdleRun EXCEPT !.pc = "symbol", !.i = 1,
                                                    !.news = newsOk]]
        ELSE rs' = rs
    /\ UNCHANGED <<positions, trades, orders, faults, eval, config>>

\* one symbol of the watch-list, from the price fetch to the end of
\* checkForBuyOpportunities
SymbolPass(r) ==
    /\ rs[r].pc = "symbol"
    /\ \E w \in processSymbol(World, r, PricesOf, TradingSignals, NewsSent) :
          Explored(w) /\ Becomes(w)

\* printPortfolioSummary, printCurrentCapital, printTradeHistoryForToday:
\* each reads the stores inside its own try/catch, then the run returns
Summary(r) ==
    /\ rs[r].pc = "summary"
    /\ rs' = [rs EXCEPT ![r] = IdleRun]
    /\ UNCHANGED <<positions, trades, orders, faults, eval, config>>

\* liveTrade saw a rise of 1% or more: executeTrade(symbol, 1, 'buy')
LiveBuy ==
    /\ \A q \in Runs : rs[q].pc = "idle"
    /\ \E symbol \in Symbols :
          \E currentPrice \in OnePrice[symbol] \cup {NoValue} :
             \E w \in executeTradeBuy(World, symbol, 1, currentPrice) :
                Explored(w) /\ Becomes(w)

\* updatePortfolio, the evening job, for one of the holdings it found: the
\* quote, then updateOne by _id; a run may have sold the holding since the
\* job's find
UpdatePortfolio ==
    /\ \E symbol \in Symbols : \E n \in 1..Len(positions[symbol]) :
          \E currentPrice \in PricesOf[symbol] :
             positions' = [positions EXCEPT ![symbol][n] = updateOne(@, currentPrice)]
    /\ UNCHANGED <<trades, orders, rs, faults, eval, config>>

\* ---------------------------------------------- the steps, one at a time
\* An invocation suspended at an await takes its next step; the signals and
\* the sentiments a symbol can see are those of the caller.
BeginSymbolStep(r, quotes, signals, sentiments) ==
    /\ rs[r].pc = "symbol"
    /\ \E w \in BeginSymbol(World, r, quotes, signals, sentiments) : Becomes(w)

ExitCheckStep(r) ==
    /\ rs[r].pc = "exit"
    /\ \E w \in ExitCheck(World, r) : Becomes(w)

SellOrderStep(r) ==
    /\ rs[r].pc = "sellOrder"
    /\ \E w \in SellOrder(World, r) : Explored(w) /\ Becomes(w)

SellSaveStep(r) ==
    /\ rs[r].pc = "sellSave"
    /\ \E w \in SellSave(World, r) : Becomes(w)

SellTradeStep(r) ==
    /\ rs[r].pc = "sellTrade"
    /\ \E w \in SellTrade(World, r) : Becomes(w)

EntryCheckStep(r) ==
    /\ rs[r].pc = "entry"
    /\ \E w \in EntryCheck(World, r) : Becomes(w)

BuyOrderStep(r) ==
    /\ rs[r].pc = "buyOrder"
    /\ \E w \in BuyOrder(World, r) : Explored(w) /\ Becomes(w)

BuySaveStep(r) ==
    /\ rs[r].pc = "buySave"
    /\ \E w \in BuySave(World, r) : Explored(w) /\ Becomes(w)

BuyTradeStep(r) ==
    /\ rs[r].pc = "buyTrade"
    /\ \E w \in BuyTrade(World, r) : Becomes(w)

\* ---------------------------------------------------------- specifications
\* Spec: the daily runs one after another, a symbol of the watch-list per
\* step.
Next ==
    \/ Trigger(1, TRUE)
    \/ SymbolPass(1)
    \/ Summary(1)

Spec == Init /\ [][Next]_vars

\* SpecLive: the daily runs and the live-trade buys, one after another.
NextLive ==
    \/ Trigger(1, TRUE)
    \/ SymbolPass(1)
    \/ Summary(1)
    \/ LiveBuy

SpecLive == Init /\ [][NextLive]_vars

\* SpecAwait: the daily runs one after another, await by await.
NextAwait ==
    \/ Trigger(1, TRUE)
    \/ BeginSymbolStep(1, PricesOf, TradingSignals, NewsSent)
    \/ ExitCheckStep(1)
    \/ SellOrderStep(1)
    \/ SellSaveStep(1)
    \/ SellTradeStep(1)
    \/ EntryCheckStep(1)
    \/ BuyOrderStep(1)
    \/ BuySaveStep(1)
    \/ BuyTradeStep(1)
    \/ Summary(1)

SpecAwait == Init /\ [][NextAwait]_vars

\* SpecHandlers: one run at a time, await by await, its two handlers called
\* with every Signal and with the sentiments around their thresholds.
NextHandlers ==
    \/ Trigger(1, TRUE)
    \/ BeginSymbolStep(1, PricesOf, HarnessSignals, HarnessSent)
    \/ ExitCheckStep(1)
    \/ SellOrderStep(1)
    \/ SellSaveStep(1)
    \/ SellTradeStep(1)
    \/ EntryCheckStep(1)
    \/ BuyOrderStep(1)
    \/ BuySaveStep(1)
    \/ BuyTradeStep(1)
    \/ Summary(1)

SpecHandlers == Init /\ [][NextHandlers]_vars

\* SpecSizing: one run at a time, await by await, every Signal at a price
\* within and at a price beyond the risk amount.
NextSizing ==
    \/ Trigger(1, TRUE)
    \/ BeginSymbolStep(1, SizingPrices, HarnessSignals, NoNews)
    \/ ExitCheckStep(1)
    \/ SellOrderStep(1)
    \/ SellSaveStep(1)
    \/ SellTradeStep(1)
    \/ EntryCheckStep(1)
    \/ BuyOrderStep(1)
    \/ BuySaveStep(1)
    \/ BuyTradeStep(1)
    \/ Summary(1)

SpecSizing == Init /\ [][NextSizing]_vars

\* SpecEnv: the daily runs one after another, await by await, in a process
\* started with or without RISK_PERCENT in its environment.
InitEnv ==
    /\ positions = EmptyStore
    /\ trades = EmptyStore
    /\ orders = EmptyStore
    /\ rs = [r \in Runs |-> IdleRun]
    /\ faults = 0
    /\ eval = NotEvaluated
    /\ config \in {[RISK_PERCENT |-> RISK_PERCENT], [RISK_PERCENT |-> NaN]}

SpecEnv == InitEnv /\ [][NextAwait]_vars

\* SpecJobs: the daily runs one after another, await by await, and the
\* evening job at any moment.
NextJobs ==
    \/ NextAwait
    \/ UpdatePortfolio

SpecJobs == Init /\ [][NextJobs]_vars

\* The market as one symbol pass sees it: the moving-average and MACD facts
\* getTradingSignal reads, the RSI series both getTradingSignal and
\* evaluateStock read through getRSI, and the aggregated sentiment.
Markets ==
    [crossedAbove : BOOLEAN, crossedBelow : BOOLEAN, macdAbove : BOOLEAN,
     threw : BOOLEAN,
     rsiData : {Flat(20, 3), Ramp(3), Flat(50, 3), Flat(80, 3)},
     today : {<<>>, <<60, 60, 60>>, <<0 - 60, 0 - 60, 0 - 60>>}]

\* what evaluateStock returns for a symbol of the watch-list on a market
MarketDecision(symbol, m) ==
    evaluateStock([type |-> "string", value |-> symbol],
                  [ok |-> TRUE, quotes |-> Period + Len(m.rsiData),
                   closes |-> Period + Len(m.rsiData), rsi |-> m.rsiData],
                  [fails |-> FALSE, today |-> m.today, yesterday |-> <<>>]).returned

\* the head of one symbol pass on a market m: the run asks getTradingSignal;
\* eval keeps what evaluateStock returns for the same symbol and market
BeginSymbolMarket(r) ==
    /\ rs[r].pc = "symbol"
    /\ \E m \in Markets :
          LET action == getTradingSignal(m.crossedAbove, m.crossedBelow,
                                         m.rsiData[Len(m.rsiData)],
                                         m.macdAbove, m.threw)
          IN /\ \E w \in BeginSymbol(World, r, OnePrice,
                                     [symbol \in Symbols |-> {action}], NoNews) :
                   /\ positions' = w.positions
                   /\ trades' = w.trades
                   /\ orders' = w.orders
                   /\ rs' = w.rs
                   /\ faults' = w.faults
             /\ eval' = [rsiData |-> m.rsiData, today |-> m.today,
                         decision |-> MarketDecision(SymbolOf(World, r), m)]
    /\ UNCHANGED config

\* SpecSignal: the daily runs one after another, await by await, each symbol
\* pass on a market of its own.
NextSignal ==
    \/ Trigger(1, TRUE)
    \/ BeginSymbolMarket(1)
    \/ ExitCheckStep(1)
    \/ SellOrderStep(1)
    \/ SellSaveStep(1)
    \/ SellTradeStep(1)
    \/ EntryCheckStep(1)
    \/ BuyOrderStep(1)
    \/ BuySaveStep(1)
    \/ BuyTradeStep(1)
    \/ Summary(1)

SpecSignal == Init /\ [][NextSignal]_vars

\* SpecTrend: analyzeRsiTrend applied to one series of RSI values.
InitTrend ==
    /\ positions = EmptyStore
    /\ trades = EmptyStore
    /\ orders = EmptyStore
    /\ rs = [r \in Runs |-> IdleRun]
    /\ faults = 0
    /\ config = [RISK_PERCENT |-> RISK_PERCENT]
    /\ eval \in [series : SeqsUpTo(RsiLevels, MaxSeries) \cup ExampleSeries,
                 rsiTrend : {"none"}]

AnalyzeRsiTrend ==
    /\ eval.rsiTrend = "none"
    /\ eval' = [eval EXCEPT !.rsiTrend = analyzeRsiTrend(eval.series)]
    /\ UNCHANGED <<positions, trades, orders, rs, faults, config>>

SpecTrend == InitTrend /\ [][AnalyzeRsiTrend]_vars

\* SpecSentiment: getNewsSentiment applied to the samples of today and of
\* yesterday.
NoSentiment == [avgSentiment |-> 0, newsCount |-> 0, recentTrend |-> "none"]

InitSentiment ==
    /\ positions = EmptyStore
    /\ trades = EmptyStore
    /\ orders = EmptyStore
    /\ rs = [r \in Runs |-> IdleRun]
    /\ faults = 0
    /\ config = [RISK_PERCENT |-> RISK_PERCENT]
    /\ eval \in [today : SeqsUpTo(SampleValues, MaxSamples),
                 yesterday : SeqsUpTo(SampleValues, MaxSamples),
                 sentimentData : {NoSentiment}]

GetNewsSentiment ==
    /\ eval.sentimentData = NoSentiment
    /\ eval' = [eval EXCEPT !.sentimentData = getNewsSentiment(eval.today, eval.yesterday)]
    /\ UNCHANGED <<positions, trades, orders, rs, faults, config>>

SpecSentiment == InitSentiment /\ [][GetNewsSentiment]_vars

\* SpecEvaluate: evaluateStock applied to one symbol argument, one chart and
\* one outcome of the sentiment queries.
NotReturned == [returned |-> "none", threw |-> FALSE, rsiTrend |-> "none"]

InitEvaluate ==
    /\ positions = EmptyStore
    /\ trades = EmptyStore
    /\ orders = EmptyStore
    /\ rs = [r \in Runs |-> IdleRun]
    /\ faults = 0
    /\ config = [RISK_PERCENT |-> RISK_PERCENT]
    /\ eval \in [symbol : SymbolArgs, chart : Charts, query : Queries,
                 result : {NotReturned}]
    /\ Len(eval.chart.rsi) =
          IF eval.chart.closes > Period THEN eval.chart.closes - Period ELSE 0

EvaluateStockCall ==
    /\ eval.result = NotReturned
    /\ eval' = [eval EXCEPT !.result = evaluateStock(eval.symbol, eval.chart, eval.query)]
    /\ UNCHANGED <<positions, trades, orders, rs, faults, config>>

SpecEvaluate == InitEvaluate /\ [][EvaluateStockCall]_vars

\* SpecPure: the daily runs, one symbol pass at a time, and calls of
\* determineTradeDecision in between.
DecideInputs ==
    [current : {20, 50}, rsiTrend : {"BULLISH"}, value : {0, 60}, count : {3},
     trend : {"NEUTRAL"}]

\* variant: the decision looks at the Position store
DecideHoldingAware(e) ==
    IF \E symbol \in Symbols : FindActive(positions, symbol) # <<>>
    THEN "HOLD"
    ELSE determineTradeDecision(Factors(e.current, e.rsiTrend, e.value, e.count, e.trend))

\* determineTradeDecision called on the factors of e
Decide(e) ==
    determineTradeDecision(Factors(e.current, e.rsiTrend, e.value, e.count, e.trend))

DecideCall ==
    /\ \E e \in DecideInputs :
          eval' = [current |-> e.current, rsiTrend |-> e.rsiTrend, value |-> e.value,
                   count |-> e.count, trend |-> e.trend, decision |-> Decide(e)]
    /\ UNCHANGED <<positions, trades, orders, rs, faults, config>>

NextPure ==
    \/ Next
    \/ DecideCall

SpecPure == Init /\ [][NextPure]_vars

\* SpecWeek: the daily runs await by await, each started on a day of the
\* week (Date.getDay: 0 is Sunday, 6 is Saturday); eval keeps the day of the
\* last start.
Days == 0..6

\* variant: only Sunday closes the market
isWeekendSundayOnly(day) == day = 0

isWeekend(day) == day = 0 \/ day = 6

InitWeek ==
    /\ positions = EmptyStore
    /\ trades = EmptyStore
    /\ orders = EmptyStore
    /\ rs = [r \in Runs |-> IdleRun]
    /\ faults = 0
    /\ config = [RISK_PERCENT |-> RISK_PERCENT]
    /\ eval = [day |-> 1]

\* executeDailyTrades up to the start of the loop: the weekend return, then
\* processNews inside its own try/catch
DayTrigger(r) ==
    /\ rs[r].pc = "idle"
    /\ \A q \in Runs : rs[q].pc = "idle"
    /\ \E day \in Days, newsOk \in BOOLEAN :
          /\ eval' = [day |-> day]
          /\ IF isWeekend(day)
             THEN rs' = rs
             ELSE rs' = [rs EXCEPT ![r] = [IdleRun EXCEPT !.pc = "symbol", !.i = 1,
                                                         !.news = newsOk]]
    /\ UNCHANGED <<positions, trades, orders, faults, config>>

NextWeek ==
    \/ DayTrigger(1)
    \/ BeginSymbolStep(1, PricesOf, TradingSignals, NoNews)
    \/ ExitCheckStep(1)
    \/ SellOrderStep(1)
    \/ SellSaveStep(1)
    \/ SellTradeStep(1)
    \/ EntryCheckStep(1)
    \/ BuyOrderStep(1)
    \/ BuySaveStep(1)
    \/ BuyTradeStep(1)
    \/ Summary(1)

SpecWeek == InitWeek /\ [][NextWeek]_vars

\* SpecQuote: the daily runs await by await, with the outcome of each
\* yahooFinance.quote kept in eval.
QuotesOf ==
    [symbol \in Symbols |->
        {[ok |-> FALSE, regularMarketPrice |-> NoValue]}
        \cup [ok : {TRUE}, regularMarketPrice : PricesOf[symbol] \cup {NoValue}]]

\* getCurrentPrice: the quoted price, null when the fetch fails
getCurrentPrice(quote) == IF quote.ok THEN quote.regularMarketPrice ELSE NoValue

\* variant: every price is taken as it comes
PriceMissingNever(currentPrice) == FALSE

\* !currentPrice
PriceMissing(currentPrice) == currentPrice = NoValue \/ currentPrice = 0

InitQuote ==
    /\ positions = EmptyStore
    /\ trades = EmptyStore
    /\ orders = EmptyStore
    /\ rs = [r \in Runs |-> IdleRun]
    /\ faults = 0
    /\ config = [RISK_PERCENT |-> RISK_PERCENT]
    /\ eval = [symbol |-> WATCHLIST[1], quote |-> [ok |-> TRUE, regularMarketPrice |-> 10000]]

\* the head of one symbol pass: getCurrentPrice on a quote, the skip when
\* there is no price, otherwise the signal and the first store read
BeginSymbolQuote(r) ==
    /\ rs[r].pc = "symbol"
    /\ \E quote \in QuotesOf[SymbolOf(World, r)] :
          LET currentPrice == getCurrentPrice(quote)
              heads == IF PriceMissing(currentPrice)
                       THEN {NextSymbol(World, r)}
                       ELSE BeginSymbol(World, r, [symbol \in Symbols |-> {currentPrice}],
                                        TradingSignals, NoNews)
                            \ {NextSymbol(World, r)}
          IN /\ eval' = [symbol |-> SymbolOf(World, r), quote |-> quote]
             /\ \E w \in heads :
                   /\ positions' = w.positions
                   /\ trades' = w.trades
                   /\ orders' = w.orders
                   /\ rs' = w.rs
                   /\ faults' = w.faults
    /\ UNCHANGED config

NextQuote ==
    \/ Trigger(1, TRUE)
    \/ BeginSymbolQuote(1)
    \/ ExitCheckStep(1)
    \/ SellOrderStep(1)
    \/ SellSaveStep(1)
    \/ SellTradeStep(1)
    \/ EntryCheckStep(1)
    \/ BuyOrderStep(1)
    \/ BuySaveStep(1)
    \/ BuyTradeStep(1)
    \/ Summary(1)

SpecQuote == InitQuote /\ [][NextQuote]_vars

\* SpecTrigger: the daily runs, one symbol pass at a time, each started by
\* the scheduled job or by POST /test-trade; eval keeps which one started the
\* last run.
\* executeDailyTrades up to the start of the loop
executeDailyTradesStart(w, r, weekend, newsOk) ==
    IF weekend THEN w
    ELSE [w EXCEPT !.rs[r] = [IdleRun EXCEPT !.pc = "symbol", !.i = 1, !.news = newsOk]]

\* the scheduled job: processNews, then executeDailyTrades; a failure of
\* processNews is caught and logged
scheduledJob(w, r, triggerNewsOk, weekend, newsOk) ==
    IF ~triggerNewsOk THEN w
    ELSE executeDailyTradesStart(w, r, weekend, newsOk)

\* variant: the manual trigger goes straight to executeDailyTrades
testTradeWithoutNews(w, r, triggerNewsOk, weekend, newsOk) ==
    executeDailyTradesStart(w, r, weekend, newsOk)

\* POST /test-trade: processNews, then executeDailyTrades; a failure of
\* processNews is caught and answered with status 500
testTrade(w, r, triggerNewsOk, weekend, newsOk) ==
    IF ~triggerNewsOk THEN w
    ELSE executeDailyTradesStart(w, r, weekend, newsOk)

InitTrigger ==
    /\ positions = EmptyStore
    /\ trades = EmptyStore
    /\ orders = EmptyStore
    /\ rs = [r \in Runs |-> IdleRun]
    /\ faults = 0
    /\ config = [RISK_PERCENT |-> RISK_PERCENT]
    /\ eval = [trigger |-> "none"]

ScheduledJob(r) ==
    /\ \A q \in Runs : rs[q].pc = "idle"
    /\ \E triggerNewsOk \in BOOLEAN, weekend \in BOOLEAN, newsOk \in BOOLEAN :
          rs' = scheduledJob(World, r, triggerNewsOk, weekend, newsOk).rs
    /\ eval' = [trigger |-> "schedule"]
    /\ UNCHANGED <<positions, trades, orders, faults, config>>

TestTrade(r) ==
    /\ \A q \in Runs : rs[q].pc = "idle"
    /\ \E triggerNewsOk \in BOOLEAN, weekend \in BOOLEAN, newsOk \in BOOLEAN :
          rs' = testTrade(World, r, triggerNewsOk, weekend, newsOk).rs
    /\ eval' = [trigger |-> "manual"]
    /\ UNCHANGED <<positions, trades, orders, faults, config>>

NextTrigger ==
    \/ ScheduledJob(1)
    \/ TestTrade(1)
    \/ SymbolPass(1)
    \/ Summary(1)

SpecTrigger == InitTrigger /\ [][NextTrigger]_vars

\* SpecSummary: the daily runs, one symbol pass at a time, with the three
\* summaries of the end of a run one by one; eval keeps whether a summary
\* failed and whether executeDailyTrades threw.
\* variant: the catch block of a summary throws the error again
SummaryCatchRethrow(w) == [world |-> w, caught |-> TRUE, thrown |-> TRUE]

\* the catch block of a summary: the error is logged
SummaryCatch(w) == [world |-> w, caught |-> TRUE, thrown |-> FALSE]

\* printPortfolioSummary: Portfolio.find({sold: false}), a price for each
\* holding, log lines; all inside one try/catch
printPortfolioSummary(w) ==
    {[world |-> w, caught |-> FALSE, thrown |-> FALSE]}
    \cup {SummaryCatch(f) : f \in Failing(w, w)}

\* printCurrentCapital: Portfolio.find({sold: false}), the capital in use,
\* log lines; all inside one try/catch
printCurrentCapital(w) ==
    {[world |-> w, caught |-> FALSE, thrown |-> FALSE]}
    \cup {SummaryCatch(f) : f \in Failing(w, w)}

\* printTradeHistoryForToday: Trade.find of today, log lines; all inside one
\* try/catch
printTradeHistoryForToday(w) ==
    {[world |-> w, caught |-> FALSE, thrown |-> FALSE]}
    \cup {SummaryCatch(f) : f \in Failing(w, w)}

InitSummary ==
    /\ positions = EmptyStore
    /\ trades = EmptyStore
    /\ orders = EmptyStore
    /\ rs = [r \in Runs |-> IdleRun]
    /\ faults = 0
    /\ config = [RISK_PERCENT |-> RISK_PERCENT]
    /\ eval = [caught |-> FALSE, thrown |-> FALSE]

\* one summary of the run r has the outcome o and the run goes on at pc; an
\* exception that leaves a summary goes through the catch of
\* executeDailyTrades, which throws it again
SummaryOutcome(r, o, pc) ==
    /\ positions' = o.world.positions
    /\ trades' = o.world.trades
    /\ orders' = o.world.orders
    /\ faults' = o.world.faults
    /\ eval' = [caught |-> o.caught, thrown |-> o.thrown]
    /\ rs' = [rs EXCEPT ![r] = IF o.thrown \/ pc = "idle" THEN IdleRun
                               ELSE [IdleRun EXCEPT !.pc = pc]]
    /\ UNCHANGED config

PortfolioSummaryStep(r) ==
    /\ rs[r].pc = "summary"
    /\ \E o \in printPortfolioSummary(World) : SummaryOutcome(r, o, "capital")

CurrentCapitalStep(r) ==
    /\ rs[r].pc = "capital"
    /\ \E o \in printCurrentCapital(World) : SummaryOutcome(r, o, "history")

TradeHistoryStep(r) ==
    /\ rs[r].pc = "history"
    /\ \E o \in printTradeHistoryForToday(World) : SummaryOutcome(r, o, "idle")

NextSummary ==
    \/ Trigger(1, TRUE)
    \/ SymbolPass(1)
    \/ PortfolioSummaryStep(1)
    \/ CurrentCapitalStep(1)
    \/ TradeHistoryStep(1)

SpecSummary == InitSummary /\ [][NextSummary]_vars

\* SpecNews: processNews on batches of headlines of one symbol, the change of
\* day, and getNewsSentiment on what the News collection holds; eval keeps the
\* collection (today's and yesterday's sentiments), the last batch and the
\* last result.
\* most headlines in news.txt
MaxHeadlines == 2

\* most keywords of one polarity matched by one headline
MaxMatches == 3

\* a headline, by the number of positive and of negative keywords it includes
Headlines == [positive : 0..MaxMatches, negative : 0..MaxMatches]

\* variant: the score is stored as computed
clampScoreOff(score) == score

\* Math.max(-1, Math.min(1, score)), in hundredths
clampScore(score) ==
    IF score > 100 THEN 100 ELSE IF score < 0 - 100 THEN 0 - 100 ELSE score

\* the sentiment of the News document of a headline: 0.5 for each positive
\* keyword, -0.5 for each negative keyword, then the clamp
headlineScore(headline) == clampScore(50 * headline.positive - 50 * headline.negative)

\* newsSchema: sentiment is a Number with min -1 and max 1
NewsValid(sentiment) == sentiment >= 0 - 100 /\ sentiment <= 100

\* variant: the documents of today are replaced, older ones are kept
processNewsKeepingOld(news, batch, fileOk, fails) ==
    LET newsDocs == [n \in DOMAIN batch |-> headlineScore(batch[n])]
    IN IF ~fileOk \/ batch = <<>> THEN [news EXCEPT !.processed = "empty"]
       ELSE IF fails = "read" THEN [news EXCEPT !.processed = "read"]
       ELSE IF fails = "delete" THEN [news EXCEPT !.processed = "delete"]
       ELSE IF \E n \in DOMAIN newsDocs : ~NewsValid(newsDocs[n])
            THEN [news EXCEPT !.processed = "invalid"]
       ELSE IF fails = "insert" THEN [news EXCEPT !.processed = "insert"]
       ELSE [news EXCEPT !.today = newsDocs, !.processed = "ok"]

\* processNews on a batch: "empty" when news.txt is missing or has no
\* headline (nothing is touched), "read" when reading fails (nothing is
\* touched), otherwise deleteMany({}) and insertMany(newsDocs): "delete" when
\* deleteMany fails, "invalid" when insertMany rejects a document, "insert"
\* when insertMany fails, "ok" when the documents are stored
processNews(news, batch, fileOk, fails) ==
    LET newsDocs == [n \in DOMAIN batch |-> headlineScore(batch[n])]
        cleared == [news EXCEPT !.today = <<>>, !.yesterday = <<>>]
    IN IF ~fileOk \/ batch = <<>> THEN [news EXCEPT !.processed = "empty"]
       ELSE IF fails = "read" THEN [news EXCEPT !.processed = "read"]
       ELSE IF fails = "delete" THEN [news EXCEPT !.processed = "delete"]
       ELSE IF \E n \in DOMAIN newsDocs : ~NewsValid(newsDocs[n])
            THEN [cleared EXCEPT !.processed = "invalid"]
       ELSE IF fails = "insert" THEN [cleared EXCEPT !.processed = "insert"]
       ELSE [cleared EXCEPT !.today = newsDocs, !.processed = "ok"]

InitNews ==
    /\ positions = EmptyStore
    /\ trades = EmptyStore
    /\ orders = EmptyStore
    /\ rs = [r \in Runs |-> IdleRun]
    /\ faults = 0
    /\ config = [RISK_PERCENT |-> RISK_PERCENT]
    /\ eval = [today |-> <<>>, yesterday |-> <<>>, headlines |-> <<>>,
               processed |-> "none", sentimentData |-> NoSentiment]

ProcessNews ==
    /\ \E batch \in SeqsUpTo(Headlines, MaxHeadlines), fileOk \in BOOLEAN,
          fails \in {"none", "read", "delete", "insert"} :
          LET news == processNews(eval, batch, fileOk, fails)
          IN eval' = [news EXCEPT
                         !.headlines = IF news.processed = "ok" THEN batch ELSE <<>>,
                         !.sentimentData = NoSentiment]
    /\ UNCHANGED <<positions, trades, orders, rs, faults, config>>

\* midnight: today's documents are yesterday's, yesterday's are out of both
\* windows
Midnight ==
    /\ eval' = [eval EXCEPT !.yesterday = eval.today, !.today = <<>>,
                            !.headlines = <<>>, !.processed = "none",
                            !.sentimentData = NoSentiment]
    /\ UNCHANGED <<positions, trades, orders, rs, faults, config>>

SentimentQuery ==
    /\ eval' = [eval EXCEPT !.sentimentData = getNewsSentiment(eval.today, eval.yesterday)]
    /\ UNCHANGED <<positions, trades, orders, rs, faults, config>>

NextNews ==
    \/ ProcessNews
    \/ Midnight
    \/ SentimentQuery

SpecNews == InitNews /\ [][NextNews]_vars

\* --------------------------------------------- StrategyService.liveTrade
\* the latest price and the price of a minute ago as the market-data
\* service gives them: a fall of 1%, no change, a rise of 1%, no price for
\* the first symbol of the watch-list, a fall of 1% for the others
LivePrices == [symbol \in Symbols |->
                  [currentPrice : IF symbol = WATCHLIST[1]
                                  THEN {NoValue, 9900, 10000, 10100} ELSE {9900},
                   lastMinutePrice : {10000}]]

\* executeTrade(symbol, quantity, 'sell'): findOne({symbol, sold: false});
\* the holding gets sold, sellPrice and exitReason "liveTrade" and is saved;
\* the Trade that follows names signalStrength, which no scope declares, so
\* building it throws; every exception is caught and logged
executeTradeSell(w, symbol, quantity, currentPrice) ==
    LET found == FindActive(w.positions, symbol)
        id == found[1].id
        doc == [w.positions[symbol][id] EXCEPT
                   !.sold = TRUE, !.sellPrice = currentPrice,
                   !.exitReason = "liveTrade"]
        saved == [w EXCEPT !.positions[symbol][id] = doc]
    IN Failing(w, w)
       \cup (IF found = <<>> THEN {w}
             ELSE IF ~PortfolioValid(doc) THEN {w}
             ELSE Failing(w, w) \cup {saved})

\* liveTrade(symbol): no price, no price of a minute ago or an unchanged
\* price return at once; a change of +1% or more buys one share, a change of
\* -1% or less sells
liveTrade(w, symbol, currentPrice, lastMinutePrice) ==
    IF PriceMissing(currentPrice) \/ PriceMissing(lastMinutePrice) THEN {w}
    ELSE IF lastMinutePrice >= currentPrice /\ lastMinutePrice - currentPrice < 1 THEN {w}
    ELSE IF (currentPrice - lastMinutePrice) * 100 >= lastMinutePrice
    THEN executeTradeBuy(w, symbol, 1, currentPrice)
    ELSE IF (currentPrice - lastMinutePrice) * 100 <= 0 - lastMinutePrice
    THEN executeTradeSell(w, symbol, 1, currentPrice)
    ELSE {w}

\* no liveTrade call was made yet
InitLiveTrade ==
    /\ positions = EmptyStore
    /\ trades = EmptyStore
    /\ orders = EmptyStore
    /\ rs = [r \in Runs |-> IdleRun]
    /\ faults = 0
    /\ eval = [symbol |-> WATCHLIST[1], currentPrice |-> NoValue,
               lastMinutePrice |-> NoValue, calls |-> 0]
    /\ config = [RISK_PERCENT |-> RISK_PERCENT]

\* one call of liveTrade between two runs; eval keeps its arguments and the
\* parity of the number of calls
LiveTrade ==
    /\ \A q \in Runs : rs[q].pc = "idle"
    /\ \E symbol \in Symbols : \E p \in LivePrices[symbol] :
          /\ \E w \in liveTrade(World, symbol, p.currentPrice, p.lastMinutePrice) :
                /\ Explored(w)
                /\ positions' = w.positions
                /\ trades' = w.trades
                /\ orders' = w.orders
                /\ rs' = w.rs
                /\ faults' = w.faults
          /\ eval' = [symbol |-> symbol, currentPrice |-> p.currentPrice,
                      lastMinutePrice |-> p.lastMinutePrice, calls |-> 1 - eval.calls]
    /\ UNCHANGED config

\* SpecLiveTrade: the daily runs and the live trades, one after another.
NextLiveTrade ==
    \/ Trigger(1, TRUE)
    \/ SymbolPass(1)
    \/ Summary(1)
    \/ LiveTrade

SpecLiveTrade == InitLiveTrade /\ [][NextLiveTrade]_vars

\* ------------------------------------------------ runs that keep occurring
\* room for one more Portfolio document within the exploration
Room(w) == TotalLen(w.positions, Len(WATCHLIST)) < MaxPositions

\* the broker's acknowledgements, the latest of each symbol only
LatestAcks(w) ==
    [w EXCEPT !.orders = [symbol \in Symbols |->
                             IF Len(w.orders[symbol]) > 1
                             THEN <<w.orders[symbol][Len(w.orders[symbol])]>>
                             ELSE w.orders[symbol]]]

\* every exit condition the holdings of the symbol under way were read with
ExitDue(w, r) ==
    \A k \in 1..Len(w.rs[r].hs) :
        ExitReasonOf(w.rs[r].price, w.rs[r].hs[k], w.rs[r].action, w.rs[r].ns) # "null"

\* The head of one symbol pass in a market that gives buy signals only
\* while there is room for a Position.  With exiting, the price fetch
\* succeeds and the price, the signal and the sentiment make an exit
\* condition hold for every unsold Position of the symbol.
BeginSymbolBounded(r, exiting, signals, sentiments) ==
    /\ rs[r].pc = "symbol"
    /\ \E w \in BeginSymbol(World, r, PricesOf, signals, sentiments) :
          /\ w.rs[r].action \in {"BUY", "STRONG_BUY"} => Room(World)
          /\ exiting => (w # NextSymbol(World, r) /\ ExitDue(w, r))
          /\ Becomes(w)

SellOrderBounded(r) ==
    /\ rs[r].pc = "sellOrder"
    /\ \E w \in SellOrder(World, r) : Becomes(LatestAcks(w))

BuyOrderBounded(r) ==
    /\ rs[r].pc = "buyOrder"
    /\ \E w \in BuyOrder(World, r) : Becomes(LatestAcks(w))

\* every store and broker call succeeds from the start
InitFair ==
    /\ positions = EmptyStore
    /\ trades = EmptyStore
    /\ orders = EmptyStore
    /\ rs = [r \in Runs |-> IdleRun]
    /\ faults = MaxFaults
    /\ eval = NotEvaluated
    /\ config = [RISK_PERCENT |-> RISK_PERCENT]

\* SpecFair: the daily runs keep occurring, await by await; every external
\* call succeeds, and an unsold Position sees an exit condition in every run.
NextFair ==
    \/ Trigger(1, TRUE)
    \/ BeginSymbolBounded(1, TRUE, TradingSignals, NewsSent)
    \/ ExitCheckStep(1)
    \/ SellOrderBounded(1)
    \/ SellSaveStep(1)
    \/ SellTradeStep(1)
    \/ EntryCheckStep(1)
    \/ BuyOrderBounded(1)
    \/ BuySaveStep(1)
    \/ BuyTradeStep(1)
    \/ Summary(1)

SpecFair == InitFair /\ [][NextFair]_vars /\ WF_vars(NextFair)

\* SpecTerminate: the daily runs keep occurring, await by await; every
\* external call returns or fails.
NextTerminate ==
    \/ Trigger(1, TRUE)
    \/ BeginSymbolBounded(1, FALSE, TradingSignals, NoNews)
    \/ ExitCheckStep(1)
    \/ SellOrderBounded(1)
    \/ SellSaveStep(1)
    \/ SellTradeStep(1)
    \/ EntryCheckStep(1)
    \/ BuyOrderBounded(1)
    \/ BuySaveStep(1)
    \/ BuyTradeStep(1)
    \/ Summary(1)

SpecTerminate == Init /\ [][NextTerminate]_vars /\ WF_vars(NextTerminate)

\* ----------------------------------------------- market-data.js, SymbolData
\* SpecMarket: updatePrice, getLatestPrice and getLastMinutePrice of one
\* SymbolData under a clock that never goes back; eval keeps the clock, the
\* priceHistory, every entry pushed so far, and the last query with its
\* result.
\* most updatePrice calls
MaxPushes == 4

\* last clock reading, in ms
MaxClock == 240000

\* the time between two clock readings that differ, in ms
Ticks == {30000, 60000}

\* the prices simulateMarketData feeds
MarketPrices == {15000, 16000}

\* variant: an entry of exactly two minutes ago is dropped
updatePriceStrict(priceHistory, timestamp, price) ==
    LET Kept(item) == item.timestamp > timestamp - 120000
    IN SelectSeq(Append(priceHistory, [timestamp |-> timestamp, price |-> price]), Kept)

\* updatePrice(price) at Date.now() = timestamp: push, then keep the entries
\* of the last two minutes
updatePrice(priceHistory, timestamp, price) ==
    LET Kept(item) == item.timestamp >= timestamp - 120000
    IN SelectSeq(Append(priceHistory, [timestamp |-> timestamp, price |-> price]), Kept)

\* getLatestPrice(): the price of the last entry, null when there is none
getLatestPrice(priceHistory) ==
    IF Len(priceHistory) > 0 THEN priceHistory[Len(priceHistory)].price ELSE NoValue

\* getLastMinutePrice() at Date.now() = now: the price of the first entry of
\* the last minute, null when there is none
getLastMinutePrice(priceHistory, now) ==
    LET oneMinuteAgo == now - 60000
        InLastMinute(item) == item.timestamp >= oneMinuteAgo
        lastMinuteData == SelectSeq(priceHistory, InLastMinute)
    IN IF Len(lastMinuteData) > 0 THEN lastMinuteData[1].price ELSE NoValue

\* new SymbolData(symbol)
InitMarket ==
    /\ positions = EmptyStore
    /\ trades = EmptyStore
    /\ orders = EmptyStore
    /\ rs = [r \in Runs |-> IdleRun]
    /\ faults = 0
    /\ config = [RISK_PERCENT |-> RISK_PERCENT]
    /\ eval = [now |-> 0, priceHistory |-> <<>>, pushed |-> <<>>,
               query |-> "none", result |-> NoValue]

ClockTick ==
    /\ \E tick \in Ticks :
          /\ eval.now + tick <= MaxClock
          /\ eval' = [eval EXCEPT !.now = eval.now + tick, !.query = "none",
                                  !.result = NoValue]
    /\ UNCHANGED <<positions, trades, orders, rs, faults, config>>

UpdatePrice ==
    /\ Len(eval.pushed) < MaxPushes
    /\ \E price \in MarketPrices :
          eval' = [eval EXCEPT
                      !.priceHistory = updatePrice(eval.priceHistory, eval.now, price),
                      !.pushed = Append(eval.pushed,
                                        [timestamp |-> eval.now, price |-> price]),
                      !.query = "none", !.result = NoValue]
    /\ UNCHANGED <<positions, trades, orders, rs, faults, config>>

GetLatestPrice ==
    /\ eval' = [eval EXCEPT !.query = "getLatestPrice",
                            !.result = getLatestPrice(eval.priceHistory)]
    /\ UNCHANGED <<positions, trades, orders, rs, faults, config>>

GetLastMinutePrice ==
    /\ eval' = [eval EXCEPT !.query = "getLastMinutePrice",
                            !.result = getLastMinutePrice(eval.priceHistory, eval.now)]
    /\ UNCHANGED <<positions, trades, orders, rs, faults, config>>

NextMarket ==
    \/ ClockTick
    \/ UpdatePrice
    \/ GetLatestPrice
    \/ GetLastMinutePrice

SpecMarket == InitMarket /\ [][NextMarket]_vars

\* SpecOverlap: the scheduled and the manual trigger as the program runs
\* them, a second run starting while the first is suspended at an await.
NextOverlap ==
    \E r \in Runs :
        \/ Trigger(r, FALSE)
        \/ BeginSymbolStep(r, OnePrice, TradingSignals, NoNews)
        \/ ExitCheckStep(r)
        \/ SellOrderStep(r)
        \/ SellSaveStep(r)
        \/ SellTradeStep(r)
        \/ EntryCheckStep(r)
        \/ BuyOrderStep(r)
        \/ BuySaveStep(r)
        \/ BuyTradeStep(r)
        \/ Summary(r)

SpecOverlap == Init /\ [][NextOverlap]_vars

\* SpecDecide: one call of evaluateStock from the indicator values on, for
\* every combination of RSI value, RSI trend, sentiment value, news count and
\* sentiment trend.
InitDecide ==
    /\ positions = EmptyStore
    /\ trades = EmptyStore
    /\ orders = EmptyStore
    /\ rs = [r \in Runs |-> IdleRun]
    /\ faults = 0
    /\ config = [RISK_PERCENT |-> RISK_PERCENT]
    /\ eval \in [current : RsiValues, rsiTrend : RsiTrends, value : SentimentValues,
                 count : NewsCounts, trend : SentimentTrends, decision : {"none"}]

EvaluateStock ==
    /\ eval.decision = "none"
    /\ eval' = [eval EXCEPT !.decision =
                    determineTradeDecision(
                        Factors(eval.current, eval.rsiTrend, eval.value,
                                eval.count, eval.trend))]
    /\ UNCHANGED <<positions, trades, orders, rs, faults, config>>

SpecDecide == InitDecide /\ [][EvaluateStock]_vars

\* ================================================================ properties
OpenPositions(symbol) == FindActive(positions, symbol)

InFlight == {r \in Runs : rs[r].pc # "idle"}

\* the acknowledged SELL orders for one Portfolio document
SellOrdersFor(symbol, id) ==
    {n \in 1..Len(orders[symbol]) :
        orders[symbol][n].side = "SELL" /\ orders[symbol][n].holding = id}

\* C1: with daily runs and live-trade buys one after another, no symbol ever
\* has more than one Portfolio document with sold = false.
C1_AtMostOneOpen ==
    \A symbol \in Symbols : Len(OpenPositions(symbol)) <= 1

\* a symbol whose first position was sold and that was entered again by a
\* live-trade buy, which is its only open position
C1_Witness ==
    \E symbol \in Symbols :
        /\ Len(positions[symbol]) = 2
        /\ positions[symbol][1].sold
        /\ ~positions[symbol][2].sold
        /\ positions[symbol][2].stopLoss = NoValue

\* C2: no two executions of executeDailyTrades are in flight together, so
\* no symbol gets two open positions and no position gets two SELL orders.
C2_OneRunInFlight ==
    /\ Cardinality(InFlight) <= 1
    /\ \A symbol \in Symbols :
          /\ Len(OpenPositions(symbol)) <= 1
          /\ \A id \in 1..Len(positions[symbol]) :
                Cardinality(SellOrdersFor(symbol, id)) <= 1

\* ---- the run of SpecAwait and SpecHandlers
RunSymbol == WATCHLIST[rs[1].i]
RunHolding == rs[1].hs[rs[1].k]
ExitPcs == {"sellOrder", "sellSave", "sellTrade"}
EntryPcs == {"buyOrder", "buySave", "buyTrade"}

CountSide(seq, side) == Cardinality({n \in 1..Len(seq) : seq[n].side = side})
CountAction(seq, action) == Cardinality({n \in 1..Len(seq) : seq[n].action = action})
CountSold(seq) == Cardinality({n \in 1..Len(seq) : seq[n].sold})

StopLossHolds == Le(rs[1].price, RunHolding.stopLoss)
TargetHolds == Ge(rs[1].price, RunHolding.target)
SellSignal == rs[1].action \in {"SELL", "STRONG_SELL"}

\* the reason of an exit under way is the first match of stop-loss, target,
\* sell signal
C3_Recorded ==
    rs[1].pc \in ExitPcs =>
        /\ rs[1].reason \in {"STOP_LOSS", "TARGET_HIT", "STRATEGY", "STRATEGY_NEWS"}
        /\ StopLossHolds <=> rs[1].reason = "STOP_LOSS"
        /\ rs[1].reason = "TARGET_HIT" => ~StopLossHolds /\ TargetHolds
        /\ rs[1].reason \in {"STRATEGY", "STRATEGY_NEWS"} =>
              ~StopLossHolds /\ ~TargetHolds /\ SellSignal

\* an exit check with none of the three conditions leaves the position open
\* and places no order; with one of them it goes on to the order; the reason
\* is the one the Portfolio document is saved with
C3_Step ==
    /\ rs[1].pc = "exit" /\ ~StopLossHolds /\ ~TargetHolds /\ ~SellSignal =>
          /\ orders' = orders
          /\ rs'[1].pc \notin ExitPcs
          /\ ~positions'[RunSymbol][RunHolding.id].sold
    /\ rs[1].pc = "exit" /\ (StopLossHolds \/ TargetHolds \/ SellSignal)
          /\ faults' = faults =>
          rs'[1].pc = "sellOrder"
    /\ rs[1].pc = "sellSave" /\ positions' # positions =>
          /\ positions'[RunSymbol][RunHolding.id].sold
          /\ positions'[RunSymbol][RunHolding.id].exitReason = rs[1].reason

\* C3: the exit reason is the first match in the order STOP_LOSS, TARGET_HIT,
\* strategy exit; a price at or under the stop-loss gives STOP_LOSS whatever
\* the target and the signal are, a strategy reason needs both price
\* conditions to fail, and with none of the three the position stays open and
\* no order is placed.
C3_ExitPriority == [][C3_Recorded' /\ C3_Step]_vars

\* a position saved as sold with STOP_LOSS while the signal was a sell signal
C3_Witness ==
    /\ rs[1].pc = "sellTrade"
    /\ rs[1].reason = "STOP_LOSS"
    /\ SellSignal
    /\ positions[RunSymbol][RunHolding.id].exitReason = "STOP_LOSS"

\* the condition of the breakeven ratchet for the holding under check
BreakevenDue ==
    /\ rs[1].price * 100 > RunHolding.buyPrice * 103
    /\ Lt(RunHolding.stopLoss, RunHolding.buyPrice)

C4_Step ==
    /\ \A symbol \in Symbols : \A n \in 1..Len(positions[symbol]) :
          LET before == positions[symbol][n].stopLoss
              after == positions'[symbol][n].stopLoss
          IN /\ after >= before
             /\ after # before =>
                   /\ rs[1].pc = "exit" /\ symbol = RunSymbol /\ n = RunHolding.id
                   /\ BreakevenDue
                   /\ after = positions[symbol][n].buyPrice
    /\ rs[1].pc = "exit" /\ BreakevenDue /\ faults' = faults =>
          /\ positions'[RunSymbol][RunHolding.id].stopLoss = RunHolding.buyPrice
          /\ rs'[1].pc = "sellOrder" => rs'[1].hs[rs'[1].k].stopLoss = RunHolding.buyPrice
    /\ rs[1].pc = "exit" /\ RunHolding.stopLoss = RunHolding.buyPrice
          /\ rs[1].price <= RunHolding.buyPrice =>
          rs'[1].pc = "sellOrder" /\ rs'[1].reason = "STOP_LOSS"

\* C4: the stopLoss of a position never decreases; an exit check that sees
\* currentPrice > 1.03 * buyPrice with stopLoss < buyPrice saves stopLoss =
\* buyPrice before it evaluates the exit conditions, whether or not an exit
\* follows, and no other step changes stopLoss; a position at breakeven that
\* later sees a price at or under buyPrice exits with STOP_LOSS.
C4_Ratchet == [][C4_Step]_vars

\* a position whose stop-loss was raised to buyPrice in one run and that a
\* later run sold with STOP_LOSS above its first stop-loss level
C4_Witness ==
    \E symbol \in Symbols : \E n \in 1..Len(positions[symbol]) :
        LET d == positions[symbol][n]
        IN /\ d.sold /\ d.exitReason = "STOP_LOSS"
           /\ d.stopLoss = d.buyPrice
           /\ d.sellPrice * 100 > d.buyPrice * 95

C5_Committed ==
    \A symbol \in Symbols :
        /\ Len(positions[symbol]) <= CountSide(orders[symbol], "BUY")
        /\ CountAction(trades[symbol], "BUY") <= CountSide(orders[symbol], "BUY")
        /\ CountAction(trades[symbol], "SELL") <= CountSide(orders[symbol], "SELL")
        /\ \A n \in 1..Len(positions[symbol]) :
              positions[symbol][n].sold => SellOrdersFor(symbol, n) # {}

C5_Step ==
    rs[1].pc \in {"sellOrder", "buyOrder"} /\ orders' = orders =>
        /\ positions' = positions
        /\ trades' = trades
        /\ rs'[1].pc \notin ExitPcs \cup EntryPcs

\* C5: placeOrder precedes the commits of an exit and of an entry: a daily
\* run creates no Position and marks none sold, and appends no Trade, without
\* an acknowledged order for it, and a failed placeOrder leaves the Portfolio
\* and the Trade collections as they were.
C5_OrderFirst == [][C5_Committed' /\ C5_Step]_vars

\* the SELL order of a due stop-loss exit failed: the position is still open
\* and the run went on to the entry check
C5_Witness ==
    /\ rs[1].pc = "entry"
    /\ faults = 1
    /\ \E n \in 1..Len(positions[RunSymbol]) :
          /\ ~positions[RunSymbol][n].sold
          /\ Le(rs[1].price, positions[RunSymbol][n].stopLoss)
          /\ SellOrdersFor(RunSymbol, n) = {}

\* C6: the Trade ledger matches the Portfolio collection in every state
\* between two symbols, also after a save that failed: one BUY Trade per
\* Position, one SELL Trade per sold Position and none for an unsold one.
C6_LedgerMatchesStore ==
    \A symbol \in Symbols :
        /\ CountAction(trades[symbol], "BUY") = Len(positions[symbol])
        /\ CountAction(trades[symbol], "SELL") = CountSold(positions[symbol])

InsideSymbol(pc) == pc \notin {"idle", "symbol", "summary"}

C7_Step ==
    /\ rs[1].pc # "idle" /\ rs'[1].pc = "idle" => rs[1].pc = "summary"
    /\ rs[1].pc = "idle" => rs'[1].pc = "idle" \/ (rs'[1].pc = "symbol" /\ rs'[1].i = 1)
    /\ rs[1].pc \notin {"idle", "summary"} =>
          \/ InsideSymbol(rs'[1].pc) /\ rs'[1].i = rs[1].i
          \/ rs'[1].pc = "symbol" /\ rs[1].i < Len(WATCHLIST) /\ rs'[1].i = rs[1].i + 1
          \/ rs'[1].pc = "summary" /\ rs[1].i = Len(WATCHLIST)

\* C7: whatever step of a symbol fails, the run goes on inside the symbol or
\* with the next symbol of the watch-list, reaches the summary after the last
\* symbol and ends only there; a failed processNews does not stop it.
C7_Isolation == [][C7_Step]_vars

\* a run without newsData, after a call for the first symbol failed and left
\* nothing of it, has bought the second symbol
C7_Witness ==
    /\ faults = 1
    /\ ~rs[1].news
    /\ rs[1].i = 2 /\ rs[1].pc = "buyTrade"
    /\ positions[WATCHLIST[1]] = <<>> /\ orders[WATCHLIST[1]] = <<>>
    /\ Len(positions[WATCHLIST[2]]) = 1

\* the rule table of the decision, first match wins
FirstRule(e) ==
    IF e.current < 25 /\ e.value > 50 /\ e.count >= 3
       /\ e.rsiTrend \in {"BULLISH", "STRONGLY_BULLISH"} THEN "STRONG_BUY"
    ELSE IF e.current < 30 /\ e.count >= 3
            /\ (e.value > 20 \/ e.trend = "IMPROVING") THEN "BUY"
    ELSE IF e.current > 75 /\ e.value < 0 - 50 /\ e.count >= 3
            /\ e.rsiTrend \in {"BEARISH", "STRONGLY_BEARISH"} THEN "STRONG_SELL"
    ELSE IF e.current > 70 /\ e.count >= 3
            /\ (e.value < 0 - 20 \/ e.trend = "DETERIORATING") THEN "SELL"
    ELSE IF e.rsiTrend = "STRONGLY_BULLISH" /\ e.trend = "IMPROVING"
            /\ e.count >= 5 THEN "BUY"
    ELSE IF e.rsiTrend = "STRONGLY_BEARISH" /\ e.trend = "DETERIORATING"
            /\ e.count >= 5 THEN "SELL"
    ELSE "HOLD"

\* C8: for every RSI value, RSI trend, sentiment value, news count and
\* sentiment trend the decision is the signal of the first matching rule of
\* the seven-rule table.
C8_RuleTable ==
    eval.decision # "none" => eval.decision = FirstRule(eval)

\* rules 4 and 5 both match and the decision is SELL
C8_Witness ==
    /\ eval.decision = "SELL"
    /\ eval.current > 70 /\ eval.value < 0 - 20 /\ eval.count >= 5
    /\ eval.rsiTrend = "STRONGLY_BULLISH" /\ eval.trend = "IMPROVING"

EntryAllowed ==
    /\ OpenPositions(RunSymbol) = <<>>
    /\ \/ rs[1].action = "BUY" /\ rs[1].ns >= 0 - 80
       \/ rs[1].action = "STRONG_BUY" /\ rs[1].ns >= 0 - 90

C9_Entering ==
    rs[1].pc \in {"buyOrder", "buySave"} => EntryAllowed

C9_Step ==
    /\ rs[1].pc = "entry" /\ ~EntryAllowed =>
          /\ orders' = orders /\ positions' = positions /\ trades' = trades
          /\ rs'[1].pc \notin EntryPcs
    /\ rs[1].pc = "entry" /\ EntryAllowed /\ faults' = faults =>
          rs'[1].pc = "buyOrder"
    /\ \A symbol \in Symbols :
          /\ Len(positions'[symbol]) > Len(positions[symbol]) =>
                rs[1].pc = "buySave" /\ symbol = RunSymbol
          /\ CountSide(orders'[symbol], "BUY") > CountSide(orders[symbol], "BUY") =>
                rs[1].pc = "buyOrder" /\ symbol = RunSymbol

\* C9: the entry check orders and creates a Position only for a symbol with
\* no unsold Position and a BUY or STRONG_BUY signal; BUY with sentiment <
\* -0.8 and STRONG_BUY with sentiment < -0.9 end it with no order and no
\* change, the thresholds themselves do not; HOLD, SELL and STRONG_SELL never
\* order or create.
C9_EntryGate == [][C9_Entering' /\ C9_Step]_vars

\* a BUY at sentiment exactly -0.8 has created its position
C9_Witness ==
    /\ rs[1].pc = "buyTrade"
    /\ rs[1].action = "BUY" /\ rs[1].ns = 0 - 80
    /\ Len(OpenPositions(RunSymbol)) = 1

NewsExitDue ==
    /\ ~StopLossHolds /\ ~TargetHolds
    /\ \/ rs[1].action = "SELL" /\ rs[1].ns < 0 - 50
       \/ rs[1].action = "STRONG_SELL" /\ rs[1].ns < 0 - 80

\* C10: a strategy exit under SELL with sentiment < -0.5, or STRONG_SELL with
\* sentiment < -0.8, whose order was acknowledged is saved: the Portfolio
\* document becomes sold with exitReason STRATEGY_NEWS and the SELL Trade
\* follows.
C10_NewsExitStored ==
    [][rs[1].pc = "sellSave" /\ NewsExitDue /\ faults' = faults =>
          /\ positions'[RunSymbol][RunHolding.id].sold
          /\ positions'[RunSymbol][RunHolding.id].exitReason = "STRATEGY_NEWS"
          /\ rs'[1].pc = "sellTrade"]_vars
\* the Portfolio document an entry has just saved
EntrySaved == Len(positions'[RunSymbol]) > Len(positions[RunSymbol])
SavedPosition == positions'[RunSymbol][Len(positions'[RunSymbol])]

\* C11: the Position an entry saves records buyPrice = current price,
\* signalStrength = the signal, stopLoss / target = 0.95 / 1.10 of the price
\* for BUY and 0.96 / 1.12 for STRONG_BUY, and the BUY Trade records
\* capitalUsed = price * quantity.
C11_EntryRecord ==
    [][/\ rs[1].pc = "buySave" /\ EntrySaved =>
            /\ SavedPosition.buyPrice = rs[1].price
            /\ SavedPosition.signalStrength = rs[1].action
            /\ rs[1].action = "BUY" =>
                  /\ SavedPosition.stopLoss * 100 = rs[1].price * 95
                  /\ SavedPosition.target * 100 = rs[1].price * 110
            /\ rs[1].action = "STRONG_BUY" =>
                  /\ SavedPosition.stopLoss * 100 = rs[1].price * 96
                  /\ SavedPosition.target * 100 = rs[1].price * 112
       /\ rs[1].pc = "buyTrade" /\ Len(trades'[RunSymbol]) > Len(trades[RunSymbol]) =>
            trades'[RunSymbol][Len(trades'[RunSymbol])].capitalUsed
                = rs[1].price * rs[1].qty]_vars
\* the risk amount times the multiplier, in tenths of a hundredth of a rupee
SizingBudget ==
    CAPITAL * RISK_PERCENT * (IF rs[1].action = "STRONG_BUY" THEN 15 ELSE 10)

C12_Ordered ==
    rs[1].pc = "buyOrder" =>
        /\ rs[1].qty >= 1
        /\ rs[1].qty * rs[1].price * 10 <= SizingBudget
        /\ (rs[1].qty + 1) * rs[1].price * 10 > SizingBudget

C12_Step ==
    rs[1].pc = "entry" /\ EntryAllowed /\ rs[1].price * 10 > SizingBudget =>
        /\ orders' = orders /\ positions' = positions /\ trades' = trades
        /\ rs'[1].pc \notin EntryPcs

\* C12: the quantity is floor(capital * riskPercent / 100 * multiplier /
\* price), 20 for price 100 at multiplier 1; an entry whose quantity is 0
\* places no order and creates no Position and no Trade, any other entry
\* orders a quantity >= 1.
C12_Quantity ==
    [][/\ C12_Ordered'
       /\ C12_Step
       /\ rs'[1].pc = "buyOrder" /\ rs'[1].price = 10000 /\ rs'[1].action = "BUY" =>
             rs'[1].qty = 20]_vars

\* an allowed entry at a price the risk amount does not buy
C12_Witness ==
    /\ rs[1].pc = "entry" /\ EntryAllowed
    /\ rs[1].action = "BUY"
    /\ rs[1].price * 10 > SizingBudget
\* C13: without RISK_PERCENT in the environment the entry is sized with 2%:
\* the quantity ordered is floor(capital * 2 / 100 * multiplier / price), an
\* integer >= 1, and so is the quantity of every Position.
C13_DefaultRisk ==
    /\ config.RISK_PERCENT = NaN /\ rs[1].pc = "buyOrder" =>
          /\ rs[1].qty >= 1
          /\ rs[1].qty * rs[1].price * 10 <= CAPITAL * 2 * 10
          /\ (rs[1].qty + 1) * rs[1].price * 10 > CAPITAL * 2 * 10
    /\ \A symbol \in Symbols : \A n \in 1..Len(positions[symbol]) :
          positions[symbol][n].quantity >= 1
\* C14: an exit stores the Position with sold = true, sellPrice = the current
\* price, the exit reason and profitLoss = (currentPrice - buyPrice) *
\* quantity, and appends a SELL Trade with the same price, quantity, reason
\* and profitLoss, with profitLossPercent and capitalUsed = buyPrice *
\* quantity.
C14_ExitRecord ==
    [][/\ rs[1].pc = "sellSave" /\ positions' # positions =>
            LET d == positions'[RunSymbol][RunHolding.id]
            IN /\ d.sold
               /\ d.sellPrice = rs[1].price
               /\ d.exitReason = rs[1].reason
               /\ d.profitLoss = (rs[1].price - RunHolding.buyPrice) * RunHolding.quantity
       /\ rs[1].pc = "sellTrade" /\ trades' # trades =>
            LET t == trades'[RunSymbol][Len(trades'[RunSymbol])]
            IN /\ t.action = "SELL"
               /\ t.price = rs[1].price
               /\ t.quantity = RunHolding.quantity
               /\ t.exitReason = rs[1].reason
               /\ t.profitLoss = (rs[1].price - RunHolding.buyPrice) * RunHolding.quantity
               /\ t.profitLossPercent # NoValue
               /\ t.capitalUsed = RunHolding.buyPrice * RunHolding.quantity]_vars
C15_Step ==
    \A symbol \in Symbols :
        /\ Len(positions'[symbol]) >= Len(positions[symbol])
        /\ \A n \in 1..Len(positions[symbol]) :
              /\ positions[symbol][n].sold => positions'[symbol][n] = positions[symbol][n]
              /\ positions'[symbol][n].sold # positions[symbol][n].sold =>
                    rs[1].pc = "sellSave"
        /\ Len(positions'[symbol]) > Len(positions[symbol]) =>
              /\ rs[1].pc = "buySave" /\ symbol = RunSymbol
              /\ Len(positions'[symbol]) = Len(positions[symbol]) + 1
              /\ ~positions'[symbol][Len(positions'[symbol])].sold
              /\ \A n \in 1..Len(positions[symbol]) : positions[symbol][n].sold

C16_DecisionDrives ==
    rs[1].pc \in {"exit", "entry"} \cup ExitPcs \cup EntryPcs =>
        rs[1].action = eval.decision
\* the series' net change and range, read off the series itself
SeriesChange == eval.series[Len(eval.series)] - eval.series[1]

SeriesRange ==
    CHOOSE d \in 0..100 :
        /\ \E i, j \in DOMAIN eval.series : eval.series[i] - eval.series[j] = d
        /\ \A i, j \in DOMAIN eval.series : eval.series[i] - eval.series[j] <= d

\* C18: a series of fewer than 2 values is UNKNOWN; otherwise the label is
\* STRONGLY_BULLISH exactly when the change exceeds 5, BULLISH exactly when it
\* is above 2 up to 5, STRONGLY_BEARISH exactly when it is below -5, BEARISH
\* exactly when it is below -2 down to -5, VOLATILE exactly when the change is
\* within [-2, 2] and the range exceeds 10, NEUTRAL exactly when the change is
\* within [-2, 2] and the range is at most 10; the two example series are
\* STRONGLY_BULLISH and STRONGLY_BEARISH.
C18_Trend ==
    eval.rsiTrend # "none" =>
        /\ Len(eval.series) < 2 <=> eval.rsiTrend = "UNKNOWN"
        /\ Len(eval.series) >= 2 =>
              /\ eval.rsiTrend = "STRONGLY_BULLISH" <=> SeriesChange > 5
              /\ eval.rsiTrend = "BULLISH" <=> SeriesChange > 2 /\ SeriesChange <= 5
              /\ eval.rsiTrend = "STRONGLY_BEARISH" <=> SeriesChange < 0 - 5
              /\ eval.rsiTrend = "BEARISH" <=> SeriesChange < 0 - 2 /\ SeriesChange >= 0 - 5
              /\ eval.rsiTrend = "VOLATILE" <=>
                    SeriesChange <= 2 /\ SeriesChange >= 0 - 2 /\ SeriesRange > 10
              /\ eval.rsiTrend = "NEUTRAL" <=>
                    SeriesChange <= 2 /\ SeriesChange >= 0 - 2 /\ SeriesRange <= 10
        /\ eval.series = <<30, 32, 35, 38, 40>> => eval.rsiTrend = "STRONGLY_BULLISH"
        /\ eval.series = <<50, 45, 40, 42, 30>> => eval.rsiTrend = "STRONGLY_BEARISH"

\* a series classified VOLATILE whose change is exactly 2
C18_Witness ==
    /\ eval.rsiTrend = "VOLATILE"
    /\ Len(eval.series) = 5
    /\ SeriesChange = 2
\* the mean of a window's samples, in hundredths; 0 for an empty window
MeanOf(samples) ==
    IF samples = <<>> THEN 0
    ELSE CHOOSE a \in (0 - 100)..100 : a * Len(samples) = SumOf(samples)

\* C19: the returned average and count are the mean and the number of
\* today's samples (0 and 0 without samples), whatever yesterday's samples
\* are; the trend is IMPROVING exactly when today's mean exceeds yesterday's
\* (0 without samples) by more than 0.3, DETERIORATING exactly when it is lower
\* by more than 0.3, NEUTRAL otherwise, and the two conditions exclude each
\* other.
C19_Sentiment ==
    eval.sentimentData # NoSentiment =>
        /\ eval.sentimentData.avgSentiment = MeanOf(eval.today)
        /\ eval.sentimentData.newsCount = Len(eval.today)
        /\ eval.sentimentData.recentTrend = "IMPROVING" <=>
              MeanOf(eval.today) > MeanOf(eval.yesterday) + 30
        /\ eval.sentimentData.recentTrend = "DETERIORATING" <=>
              MeanOf(eval.today) < MeanOf(eval.yesterday) - 30
        /\ eval.sentimentData.recentTrend \in {"IMPROVING", "DETERIORATING", "NEUTRAL"}
        /\ ~ /\ MeanOf(eval.today) > MeanOf(eval.yesterday) + 30
             /\ MeanOf(eval.today) < MeanOf(eval.yesterday) - 30

\* today's mean is exactly 0.3 above yesterday's, both windows have samples,
\* and the trend is NEUTRAL
C19_Witness ==
    /\ eval.sentimentData.recentTrend = "NEUTRAL"
    /\ eval.today # <<>> /\ eval.yesterday # <<>>
    /\ MeanOf(eval.today) = MeanOf(eval.yesterday) + 30
EvaluateFailure ==
    \/ eval.symbol.type # "string" \/ eval.symbol.value = ""
    \/ ~eval.chart.ok
    \/ eval.chart.closes < Period
    \/ Len(eval.chart.rsi) < 3
    \/ eval.query.fails

\* C17: evaluateStock returns and does not throw; it returns HOLD for an
\* invalid symbol, a failed chart fetch, fewer than period closes (getRSI then
\* gives no series at all), fewer than 3 RSI points, and a failed sentiment
\* query; the trend is classified only for a valid symbol with at least 3 RSI
\* points, and only then can the result differ from HOLD.
C17_FailSafe ==
    eval.result # NotReturned =>
        /\ ~eval.result.threw
        /\ eval.result.returned \in Signal
        /\ EvaluateFailure => eval.result.returned = "HOLD"
        /\ ~eval.chart.ok \/ eval.chart.closes < Period =>
              getRSI(eval.chart, Period) = NoSeries
        /\ eval.result.rsiTrend # "none" =>
              /\ eval.symbol.type = "string" /\ eval.symbol.value # ""
              /\ eval.chart.ok /\ eval.chart.closes >= Period
              /\ Len(eval.chart.rsi) >= 3
        /\ eval.result.returned # "HOLD" => eval.result.rsiTrend # "none"

\* the sentiment query failed after the trend of a full series was classified,
\* and the result is HOLD
C17_Witness ==
    /\ eval.result.returned = "HOLD"
    /\ eval.result.rsiTrend = "STRONGLY_BULLISH"
    /\ eval.query.fails
    /\ Len(eval.chart.rsi) = 6
\* the condition of rule k of the table on an input e; rule 7 is the default
RuleMatches(k, e) ==
    CASE k = 1 -> /\ e.current < 25 /\ e.value > 50 /\ e.count >= 3
                  /\ e.rsiTrend \in {"BULLISH", "STRONGLY_BULLISH"}
      [] k = 2 -> e.current < 30 /\ e.count >= 3 /\ (e.value > 20 \/ e.trend = "IMPROVING")
      [] k = 3 -> /\ e.current > 75 /\ e.value < 0 - 50 /\ e.count >= 3
                  /\ e.rsiTrend \in {"BEARISH", "STRONGLY_BEARISH"}
      [] k = 4 -> e.current > 70 /\ e.count >= 3
                  /\ (e.value < 0 - 20 \/ e.trend = "DETERIORATING")
      [] k = 5 -> e.rsiTrend = "STRONGLY_BULLISH" /\ e.trend = "IMPROVING" /\ e.count >= 5
      [] k = 6 -> e.rsiTrend = "STRONGLY_BEARISH" /\ e.trend = "DETERIORATING" /\ e.count >= 5
      [] OTHER -> TRUE

RuleSignal == <<"STRONG_BUY", "BUY", "STRONG_SELL", "SELL", "BUY", "SELL", "HOLD">>

\* rule k is the first rule that matches e
FirstMatch(k, e) == RuleMatches(k, e) /\ \A j \in 1..(k - 1) : ~RuleMatches(j, e)

\* one input for each rule
RuleExamples ==
    {[current |-> 20, rsiTrend |-> "BULLISH", value |-> 60, count |-> 3, trend |-> "NEUTRAL"],
     [current |-> 27, rsiTrend |-> "NEUTRAL", value |-> 30, count |-> 3, trend |-> "NEUTRAL"],
     [current |-> 80, rsiTrend |-> "BEARISH", value |-> 0 - 60, count |-> 3, trend |-> "NEUTRAL"],
     [current |-> 72, rsiTrend |-> "NEUTRAL", value |-> 0 - 30, count |-> 3, trend |-> "NEUTRAL"],
     [current |-> 50, rsiTrend |-> "STRONGLY_BULLISH", value |-> 0, count |-> 5,
      trend |-> "IMPROVING"],
     [current |-> 50, rsiTrend |-> "STRONGLY_BEARISH", value |-> 0, count |-> 5,
      trend |-> "DETERIORATING"],
     [current |-> 50, rsiTrend |-> "NEUTRAL", value |-> 0, count |-> 5, trend |-> "NEUTRAL"]}

\* C20: each of the seven rules is the first matching rule of some input and
\* then gives its signal; and the thresholds are strict: at an RSI of exactly
\* 25 with sentiment above 0.5, at least 3 items and a bullish RSI trend the
\* decision is BUY; at exactly 30 rules 1 and 2 do not fire (a BUY is rule 5's),
\* at exactly 75 rule 3 does not, at exactly 70 rules 3 and 4 do not (a SELL is
\* rule 6's); a sentiment of exactly 0.5 or -0.5 gives no strong signal; with 2
\* items the decision is HOLD; with 3 or 4 items rules 5 and 6 do not fire (a
\* BUY needs an RSI below 30, a SELL one above 70).
C20_Thresholds ==
    /\ \A k \in 1..7 : \E e \in RuleExamples :
          /\ e.current \in RsiValues /\ e.rsiTrend \in RsiTrends
          /\ e.value \in SentimentValues /\ e.count \in NewsCounts
          /\ e.trend \in SentimentTrends
          /\ FirstMatch(k, e)
          /\ determineTradeDecision(
                 Factors(e.current, e.rsiTrend, e.value, e.count, e.trend)) = RuleSignal[k]
    /\ eval.decision # "none" =>
          /\ /\ eval.current = 25 /\ eval.value > 50 /\ eval.count >= 3
             /\ eval.rsiTrend \in {"BULLISH", "STRONGLY_BULLISH"}
             => eval.decision = "BUY"
          /\ eval.current = 30 =>
                /\ eval.decision # "STRONG_BUY"
                /\ eval.decision = "BUY" => RuleMatches(5, eval)
          /\ eval.current = 75 => eval.decision # "STRONG_SELL"
          /\ eval.current = 70 =>
                /\ eval.decision # "STRONG_SELL"
                /\ eval.decision = "SELL" => RuleMatches(6, eval)
          /\ eval.value = 50 => eval.decision # "STRONG_BUY"
          /\ eval.value = 0 - 50 => eval.decision # "STRONG_SELL"
          /\ eval.count = 2 => eval.decision = "HOLD"
          /\ eval.count \in {3, 4} =>
                /\ eval.decision \in {"BUY", "STRONG_BUY"} => eval.current < 30
                /\ eval.decision \in {"SELL", "STRONG_SELL"} => eval.current > 70

\* an RSI of exactly 25 with strongly bullish sentiment, 3 items and a bullish
\* RSI trend, decided BUY
C20_Witness ==
    /\ eval.decision = "BUY"
    /\ eval.current = 25 /\ eval.value > 50 /\ eval.count = 3
    /\ eval.rsiTrend = "BULLISH" /\ eval.trend = "NEUTRAL"
C21_Step ==
    eval' # eval =>
        /\ UNCHANGED <<positions, trades, orders, rs, faults, config>>
        /\ eval'.decision \in Signal
        /\ /\ eval.decision # "none"
           /\ eval'.current = eval.current /\ eval'.rsiTrend = eval.rsiTrend
           /\ eval'.value = eval.value /\ eval'.count = eval.count
           /\ eval'.trend = eval.trend
           => eval'.decision = eval.decision

StepRank ==
    [pc \in {"symbol", "exit", "sellOrder", "sellSave", "sellTrade",
             "entry", "buyOrder", "buySave", "buyTrade"} |->
        CASE pc = "symbol" -> 0
          [] pc = "exit" -> 1
          [] pc = "sellOrder" -> 2
          [] pc = "sellSave" -> 3
          [] pc = "sellTrade" -> 4
          [] pc = "entry" -> 5
          [] pc = "buyOrder" -> 6
          [] pc = "buySave" -> 7
          [] pc = "buyTrade" -> 8]

C22_Step ==
    LET pc == rs[1].pc
        next == rs'[1].pc
    IN pc \in DOMAIN StepRank =>
          \* the next symbol of the list, or the end of the loop after the last
          /\ next \notin DOMAIN StepRank =>
                next = "summary" /\ rs[1].i = Len(WATCHLIST)
          /\ next \in DOMAIN StepRank /\ rs'[1].i # rs[1].i =>
                rs'[1].i = rs[1].i + 1 /\ next = "symbol"
          \* inside a symbol: forward only, the exit steps once per holding
          /\ next \in DOMAIN StepRank /\ rs'[1].i = rs[1].i =>
                \/ /\ StepRank[next] > StepRank[pc]
                   /\ pc = "symbol" \/ rs'[1].k \in {rs[1].k, 0}
                \/ /\ next = "exit" /\ StepRank[pc] \in 1..4
                   /\ rs'[1].k = rs[1].k + 1
          \* one order at most per step, by the order step of its side
          /\ orders' # orders =>
                /\ \A symbol \in Symbols \ {RunSymbol} : orders'[symbol] = orders[symbol]
                /\ Len(orders'[RunSymbol]) = Len(orders[RunSymbol]) + 1
                /\ LET o == orders'[RunSymbol][Len(orders'[RunSymbol])]
                   IN /\ orders'[RunSymbol] = Append(orders[RunSymbol], o)
                      /\ o.side = "SELL" => pc = "sellOrder" /\ o.holding = RunHolding.id
                      /\ o.side = "BUY" => pc = "buyOrder"
          \* a failed step is not repeated
          /\ faults' > faults => rs'[1].i # rs[1].i \/ next # pc

\* C22: a run goes through the watch-list in list order, one symbol at a
\* time; inside a symbol the steps only go forward, the exit steps (once per
\* open holding) all before the entry steps; an order is placed only by the
\* order step of its side, so at most one SELL per holding and one BUY per
\* symbol and run; a step that failed is not taken again in the run.
C22_Sequential == [][C22_Step]_vars

\* the second symbol is about to place its BUY order in a run that sold and
\* saw a failure before
C22_Witness ==
    /\ rs[1].i = 2 /\ rs[1].pc = "buyOrder"
    /\ faults = 1
    /\ \E n \in DOMAIN orders[WATCHLIST[1]] : orders[WATCHLIST[1]][n].side = "SELL"
C23_Step ==
    /\ rs[1].pc # "idle" => eval.day \in 1..5
    /\ rs[1].pc = "idle" /\ eval'.day \in {0, 6} =>
          UNCHANGED <<positions, trades, orders, rs, faults>>

\* C23: a run started on a Saturday or a Sunday stays idle: it reaches no
\* symbol step (no price, no signal, no order) and leaves Positions, Trades and
\* orders as they were; every run in progress was started Monday to Friday.
C23_Weekend == [][C23_Step]_vars

\* a Saturday start with a Position open from an earlier run
C23_Witness ==
    /\ eval.day = 6
    /\ rs[1].pc = "idle"
    /\ \E symbol \in Symbols : FindActive(positions, symbol) # <<>>
C24_Step ==
    /\ rs[1].pc = "symbol" /\ rs' # rs
    /\ ~eval'.quote.ok \/ eval'.quote.regularMarketPrice = NoValue
    => /\ eval'.symbol = RunSymbol
       /\ UNCHANGED <<positions, trades, orders, faults>>
       /\ rs'[1].action = "HOLD" /\ rs'[1].price = NoValue
       /\ IF rs[1].i < Len(WATCHLIST)
          THEN rs'[1].pc = "symbol" /\ rs'[1].i = rs[1].i + 1
          ELSE rs'[1].pc = "summary"

\* C24: when the price fetch of a symbol fails or gives no price, the run
\* goes straight to the next symbol (to the summary after the last): no signal
\* is taken, no order is placed, and no Position (stopLoss included) and no
\* Trade changes.
C24_NoPriceSkip == [][C24_Step]_vars

\* the fetch failed for the first symbol while it has an open Position that
\* is still below its breakeven, and the run is at the second symbol
C24_Witness ==
    /\ ~eval.quote.ok /\ eval.symbol = WATCHLIST[1]
    /\ rs[1].pc = "symbol" /\ rs[1].i = 2
    /\ \E n \in DOMAIN positions[WATCHLIST[1]] :
          /\ ~positions[WATCHLIST[1]][n].sold
          /\ positions[WATCHLIST[1]][n].stopLoss < positions[WATCHLIST[1]][n].buyPrice
\* C25: from every state in which no run is in progress, and for every
\* outcome of the two processNews calls and every day, the scheduled job and
\* the manual trigger lead to the same state; the steps that follow read the
\* run's state only, which does not hold the trigger.
C25_SameStart ==
    rs[1].pc = "idle" =>
        \A triggerNewsOk \in BOOLEAN, weekend \in BOOLEAN, newsOk \in BOOLEAN :
            scheduledJob(World, 1, triggerNewsOk, weekend, newsOk)
                = testTrade(World, 1, triggerNewsOk, weekend, newsOk)

\* no run is in progress, the last one was started by the manual trigger, and
\* the stores hold a closed and an open Position
C25_Witness ==
    /\ rs[1].pc = "idle" /\ eval.trigger = "manual"
    /\ \E symbol \in Symbols : FindActive(positions, symbol) # <<>>
    /\ \E symbol \in Symbols : \E n \in DOMAIN positions[symbol] : positions[symbol][n].sold
\* C26: the Trades of every symbol, in order of creation, are BUY, SELL, BUY,
\* ... beginning with BUY (so the oldest Trade is a BUY and a symbol never has
\* more SELL Trades than BUY Trades).
C26_Alternation ==
    \A symbol \in Symbols : \A n \in DOMAIN trades[symbol] :
        trades[symbol][n].action = IF n % 2 = 1 THEN "BUY" ELSE "SELL"
\* C27: a Position whose stopLoss was raised to its buyPrice is never sold at
\* a loss: (sellPrice - buyPrice) * quantity >= 0 whatever the exit reason.
C27_NoLossExit ==
    \A symbol \in Symbols : \A n \in DOMAIN positions[symbol] :
        LET d == positions[symbol][n]
        IN d.sold /\ d.stopLoss = d.buyPrice =>
              (d.sellPrice - d.buyPrice) * d.quantity >= 0
\* the worlds after the loop body for the n-th symbol of the watch-list, on
\* one price, one signal and one sentiment
PassOn(w, n, in) ==
    processSymbol([w EXCEPT !.rs[1] = [IdleRun EXCEPT !.pc = "symbol", !.i = n,
                                                      !.news = TRUE]],
                  1, [symbol \in Symbols |-> {in.price}],
                  [symbol \in Symbols |-> {in.action}],
                  [symbol \in Symbols |-> {in.ns}])

StoresOf(w) ==
    [positions |-> w.positions, trades |-> w.trades, orders |-> w.orders,
     faults |-> w.faults]

PassInputs ==
    [price : {9400, 10400}, action : {"BUY", "SELL", "HOLD"}, ns : {0}]
    \cup [price : {9400, 10400}, action : {"BUY"}, ns : {0 - 100}]

\* the world with the documents of every symbol but one removed
OnlySymbol(w, symbol) ==
    [w EXCEPT !.positions = [s \in Symbols |-> IF s = symbol THEN @[s] ELSE <<>>],
              !.trades = [s \in Symbols |-> IF s = symbol THEN @[s] ELSE <<>>],
              !.orders = [s \in Symbols |-> IF s = symbol THEN @[s] ELSE <<>>]]

\* C28: between two runs, for every price, signal and sentiment of the two
\* symbols, the loop body for the first and then the second symbol ends in
\* the same Positions, Trades and orders as the second and then the first;
\* the loop body for a symbol leaves the documents of the other symbol as they
\* are, and what it does to its own does not depend on the other's.
C28_Independent ==
    rs[1].pc = "idle" =>
        \A in1, in2 \in PassInputs :
            /\ UNION {{StoresOf(v) : v \in PassOn(u, 2, in2)} : u \in PassOn(World, 1, in1)}
                 = UNION {{StoresOf(v) : v \in PassOn(u, 1, in1)} : u \in PassOn(World, 2, in2)}
            /\ \A u \in PassOn(World, 1, in1) :
                  /\ u.positions[WATCHLIST[2]] = positions[WATCHLIST[2]]
                  /\ u.trades[WATCHLIST[2]] = trades[WATCHLIST[2]]
                  /\ u.orders[WATCHLIST[2]] = orders[WATCHLIST[2]]
            /\ {StoresOf(OnlySymbol(u, WATCHLIST[1])) : u \in PassOn(World, 1, in1)}
                 = {StoresOf(u) : u \in PassOn(OnlySymbol(World, WATCHLIST[1]), 1, in1)}

\* between two runs, each of the two symbols has an open Position and a Trade
C28_Witness ==
    /\ rs[1].pc = "idle"
    /\ \A symbol \in Symbols :
          FindActive(positions, symbol) # <<>> /\ trades[symbol] # <<>>
C29_Step ==
    rs[1].pc \in {"summary", "capital", "history"} =>
        /\ UNCHANGED <<positions, trades, orders>>
        /\ ~eval'.thrown
        /\ rs'[1].pc = CASE rs[1].pc = "summary" -> "capital"
                         [] rs[1].pc = "capital" -> "history"
                         [] OTHER -> "idle"

\* C29: each of the three summaries leaves Positions, Trades and orders as
\* they are, also when it fails; a failure is caught inside the summary, the
\* next summary follows, and executeDailyTrades does not throw.
C29_ReadOnly == [][C29_Step]_vars

\* the capital summary failed in a run that has an open Position and a Trade,
\* and the trade history is next
C29_Witness ==
    /\ rs[1].pc = "history" /\ eval.caught
    /\ \E symbol \in Symbols :
          FindActive(positions, symbol) # <<>> /\ trades[symbol] # <<>>
\* 0.5 for each positive and -0.5 for each negative keyword, kept within
\* [-1, 1], in hundredths
ExpectedSentiment(headline) ==
    LET raw == 50 * (headline.positive - headline.negative)
    IN CHOOSE s \in (0 - 100)..100 :
          /\ raw > 100 => s = 100
          /\ raw < 0 - 100 => s = 0 - 100
          /\ raw \in (0 - 100)..100 => s = raw

\* C30: every sentiment in the News collection is within [-1, 1]; after a
\* successful processNews the collection holds one document for each headline
\* with the clamped keyword score, and the schema never rejects a document;
\* the average getNewsSentiment returns is within [-1, 1].
C30_SentimentRange ==
    /\ \A n \in DOMAIN eval.today : eval.today[n] \in (0 - 100)..100
    /\ \A n \in DOMAIN eval.yesterday : eval.yesterday[n] \in (0 - 100)..100
    /\ eval.processed # "invalid"
    /\ eval.processed = "ok" =>
          /\ Len(eval.today) = Len(eval.headlines)
          /\ \A n \in DOMAIN eval.today :
                eval.today[n] = ExpectedSentiment(eval.headlines[n])
    /\ eval.sentimentData.avgSentiment \in (0 - 100)..100

\* a headline with three positive keywords and no negative one is stored with
\* sentiment 1, and the average returned is 1
C30_Witness ==
    /\ eval.processed = "ok"
    /\ \E n \in DOMAIN eval.headlines :
          eval.headlines[n].positive = 3 /\ eval.headlines[n].negative = 0
    /\ eval.sentimentData.recentTrend # "none"
    /\ eval.sentimentData.avgSentiment = 100
\* ---------------------------------------------------------------- C31
\* C31: a liveTrade call that sees the price 1% or more below the price of a
\* minute ago, with an unsold Position of the symbol, stores that Position as
\* sold at the current price and appends exactly one SELL Trade; without an
\* unsold Position it writes nothing; the call returns to its caller (no
\* store or broker call failing).
C31_Step ==
    (eval'.calls # eval.calls /\ faults' = faults) =>
        LET symbol == eval'.symbol
            currentPrice == eval'.currentPrice
            lastMinutePrice == eval'.lastMinutePrice
            drop == /\ currentPrice # NoValue
                    /\ lastMinutePrice # NoValue
                    /\ (lastMinutePrice - currentPrice) * 100 >= lastMinutePrice
            found == FindActive(positions, symbol)
        IN /\ rs' = rs
           /\ (drop /\ found # <<>>) =>
                 /\ positions'[symbol][found[1].id].sold
                 /\ positions'[symbol][found[1].id].sellPrice = currentPrice
                 /\ Len(trades'[symbol]) = Len(trades[symbol]) + 1
                 /\ trades'[symbol][Len(trades'[symbol])].action = "SELL"
           /\ (drop /\ found = <<>>) => (positions' = positions /\ trades' = trades)

C31_LiveSell == [][C31_Step]_vars
\* ---------------------------------------------------------------- C32
C32_Step ==
    /\ \A symbol \in Symbols : \A n \in 1..Len(positions'[symbol]) :
          LET d == positions'[symbol][n]
          IN /\ d.stopLoss # NoValue /\ d.target # NoValue
             /\ d.stopLoss <= d.buyPrice
             /\ d.buyPrice < d.target
             /\ n > Len(positions[symbol]) => d.stopLoss < d.buyPrice
    /\ rs[1].pc = "exit" =>
          LET checked == positions'[RunSymbol][RunHolding.id]
              exiting == rs'[1].pc = "sellOrder"
              profitLoss == unrealizedPnL(rs[1].price, RunHolding)
          IN /\ ~(Le(rs[1].price, checked.stopLoss) /\ Ge(rs[1].price, checked.target))
             /\ (exiting /\ rs'[1].reason = "STOP_LOSS") =>
                   /\ profitLoss <= 0
                   /\ ~BreakevenDue
                   /\ checked.stopLoss = RunHolding.stopLoss
             /\ (exiting /\ rs'[1].reason = "TARGET_HIT") => profitLoss > 0

\* C32: a Position is created with stopLoss < buyPrice < target and keeps
\* stopLoss <= buyPrice < target in every later state; in an exit check the
\* stop-loss and the target condition never hold together, a STOP_LOSS exit
\* has profitLoss <= 0 and is not taken in the check in which the ratchet
\* fired, and a TARGET_HIT exit has profitLoss > 0.
C32_Band == [][C32_Step]_vars

\* an exit check in which the ratchet fired and the target was hit
C32_Witness ==
    /\ rs[1].pc = "sellOrder"
    /\ rs[1].reason = "TARGET_HIT"
    /\ RunHolding.stopLoss = RunHolding.buyPrice
    /\ positions[RunSymbol][RunHolding.id].stopLoss = RunHolding.buyPrice
\* ---------------------------------------------------------------- C33
\* C33: an unsold Position that sees an exit condition (stop-loss, target or
\* a sell signal with any sentiment) in every later run is eventually stored
\* as sold with its SELL Trade, when runs keep occurring and the broker and
\* store calls succeed.
C33_EventuallySold ==
    \A symbol \in Symbols : \A n \in 1..MaxPositions :
        (Len(positions[symbol]) >= n /\ ~positions[symbol][n].sold)
        ~> (/\ Len(positions[symbol]) >= n
            /\ positions[symbol][n].sold
            /\ CountAction(trades[symbol], "SELL") >= CountSold(positions[symbol]))
\* ---------------------------------------------------------------- C34
\* C34: the broker acknowledges at most one SELL order for a Position, in
\* one run after another, also when the save of the Position or of the Trade
\* that follows the order fails.
C34_OneSellOrder ==
    \A symbol \in Symbols : \A id \in 1..Len(positions[symbol]) :
        /\ Cardinality(SellOrdersFor(symbol, id)) <= 1
        /\ (SellOrdersFor(symbol, id) # {} /\ rs[1].pc \notin {"sellSave"}) =>
              positions[symbol][id].sold
\* ---------------------------------------------------------------- C35
\* the Trades one symbol pass added for its symbol, in the order of writing
AddedTrades ==
    SubSeq(trades'[RunSymbol], Len(trades[RunSymbol]) + 1, Len(trades'[RunSymbol]))

\* the Positions of the symbol that the pass stored as sold
SoldInPass ==
    {n \in 1..Len(positions[RunSymbol]) :
        ~positions[RunSymbol][n].sold /\ positions'[RunSymbol][n].sold}

C35_Step ==
    rs[1].pc = "symbol" =>
        LET strategy == {"STRATEGY", "STRATEGY_NEWS"}
        IN /\ \A symbol \in Symbols \ {RunSymbol} : trades'[symbol] = trades[symbol]
           /\ (\E n \in SoldInPass : positions'[RunSymbol][n].exitReason \in strategy) =>
                 /\ Len(positions'[RunSymbol]) = Len(positions[RunSymbol])
                 /\ CountAction(AddedTrades, "BUY") = 0
           /\ (\E n \in 1..Len(AddedTrades) :
                  AddedTrades[n].action = "SELL" /\ AddedTrades[n].exitReason \in strategy) =>
                 CountAction(AddedTrades, "BUY") = 0
           /\ (CountAction(AddedTrades, "BUY") > 0 /\ CountAction(AddedTrades, "SELL") > 0) =>
                 /\ Len(AddedTrades) = 2
                 /\ AddedTrades[1].action = "SELL"
                 /\ AddedTrades[1].exitReason \in {"STOP_LOSS", "TARGET_HIT"}
                 /\ AddedTrades[2].action = "BUY"

\* C35: one run gives a symbol one signal, so a pass that exits a position
\* for STRATEGY or STRATEGY_NEWS opens none; a pass writes a BUY and a SELL
\* Trade of its symbol only as a STOP_LOSS or TARGET_HIT exit followed by an
\* entry.
C35_NoReentry == [][C35_Step]_vars

\* a symbol whose position was sold at its stop-loss and bought again right
\* after: the last two Trades are that SELL and a BUY at the same price
C35_Witness ==
    \E symbol \in Symbols :
        LET n == Len(trades[symbol])
        IN /\ n >= 3
           /\ trades[symbol][n].action = "BUY"
           /\ trades[symbol][n - 1].action = "SELL"
           /\ trades[symbol][n - 1].exitReason = "STOP_LOSS"
           /\ trades[symbol][n - 1].price = trades[symbol][n].price
           /\ Len(positions[symbol]) = 2
           /\ positions[symbol][1].sold /\ ~positions[symbol][2].sold
\* ---------------------------------------------------------------- C36
\* inputs of the trend-confirmation BUY, one per RSI value, that rules 3 and
\* 4 do not match
ConfirmationInputs ==
    {[current |-> current, rsiTrend |-> "STRONGLY_BULLISH", value |-> 0,
      count |-> 5, trend |-> "IMPROVING"] : current \in RsiValues}

\* C36: the decision is HOLD whenever the news count is below 3, whatever
\* the RSI value, the RSI trend, the sentiment and its trend; STRONG_BUY is
\* returned only with rsi < 25 and STRONG_SELL only with rsi > 75; the
\* trend-confirmation rule returns BUY at every RSI value that rules 1, 3
\* and 4 do not match.
C36_InsufficientNews ==
    /\ eval.decision # "none" =>
          /\ eval.count < 3 => eval.decision = "HOLD"
          /\ eval.decision = "STRONG_BUY" => eval.current < 25
          /\ eval.decision = "STRONG_SELL" => eval.current > 75
          /\ (/\ RuleMatches(5, eval)
              /\ ~RuleMatches(1, eval) /\ ~RuleMatches(3, eval) /\ ~RuleMatches(4, eval))
                => eval.decision = "BUY"
    /\ \A e \in ConfirmationInputs :
          /\ ~RuleMatches(3, e) /\ ~RuleMatches(4, e)
          /\ determineTradeDecision(
                 Factors(e.current, e.rsiTrend, e.value, e.count, e.trend)) = "BUY"

\* two news items with every other input of a STRONG_BUY: HOLD
C36_Witness ==
    /\ eval.decision = "HOLD"
    /\ eval.count = 2
    /\ eval.current = 20 /\ eval.value = 60
    /\ eval.rsiTrend = "STRONGLY_BULLISH" /\ eval.trend = "IMPROVING"
\* ---------------------------------------------------------------- C37
\* the mirror image of a trend and of a signal
MirrorTrend ==
    [trend \in RsiTrends \cup SentimentTrends |->
        CASE trend = "BULLISH" -> "BEARISH"
          [] trend = "BEARISH" -> "BULLISH"
          [] trend = "STRONGLY_BULLISH" -> "STRONGLY_BEARISH"
          [] trend = "STRONGLY_BEARISH" -> "STRONGLY_BULLISH"
          [] trend = "IMPROVING" -> "DETERIORATING"
          [] trend = "DETERIORATING" -> "IMPROVING"
          [] OTHER -> trend]

MirrorSignal ==
    [signal \in Signal |->
        CASE signal = "STRONG_BUY" -> "STRONG_SELL"
          [] signal = "STRONG_SELL" -> "STRONG_BUY"
          [] signal = "BUY" -> "SELL"
          [] signal = "SELL" -> "BUY"
          [] OTHER -> signal]

\* the decision on the mirror image of the input under evaluation
MirrorDecision ==
    determineTradeDecision(
        Factors(100 - eval.current, MirrorTrend[eval.rsiTrend], 0 - eval.value,
                eval.count, MirrorTrend[eval.trend]))

\* C37: the decision on the mirror image of an input (RSI r to 100 - r,
\* sentiment s to -s, bullish and bearish trends swapped, improving and
\* deteriorating swapped, the news count kept) is the mirror image of the
\* decision: STRONG_BUY and STRONG_SELL swapped, BUY and SELL swapped, HOLD
\* kept.
C37_Mirror ==
    eval.decision # "none" => MirrorDecision = MirrorSignal[eval.decision]

\* an overbought input with a bearish sentiment that also matches the
\* bullish trend confirmation: SELL, and its mirror image BUY
C37_Witness ==
    /\ eval.decision = "SELL"
    /\ eval.current = 80 /\ eval.value = 0 - 30 /\ eval.count = 5
    /\ eval.rsiTrend = "STRONGLY_BULLISH" /\ eval.trend = "IMPROVING"
    /\ MirrorDecision = "BUY"
\* ---------------------------------------------------------------- C38
\* the external calls a run still has before it, at most: one per step of a
\* handler for the holding under check, four per holding still to check,
\* four for the entry, and for each symbol still to visit its head, four per
\* unsold Position and the entry; then the summary
CallsOfSymbol(symbol) == 1 + (4 * Len(FindActive(positions, symbol))) + 4

RECURSIVE CallsFrom(_)
CallsFrom(i) ==
    IF i > Len(WATCHLIST) THEN 0 ELSE CallsOfSymbol(WATCHLIST[i]) + CallsFrom(i + 1)

CallsInHandler ==
    LET pc == rs[1].pc
        waiting == 4 * (Len(rs[1].hs) - rs[1].k)
    IN CASE pc = "exit" -> waiting + 8
         [] pc = "sellOrder" -> waiting + 7
         [] pc = "sellSave" -> waiting + 6
         [] pc = "sellTrade" -> waiting + 5
         [] pc = "entry" -> 4
         [] pc = "buyOrder" -> 3
         [] pc = "buySave" -> 2
         [] pc = "buyTrade" -> 1
         [] OTHER -> 0

CallsLeft ==
    CASE rs[1].pc = "idle" -> 0
      [] rs[1].pc = "summary" -> 1
      [] rs[1].pc = "symbol" -> CallsFrom(rs[1].i) + 1
      [] OTHER -> CallsInHandler + CallsFrom(rs[1].i + 1) + 1

C38_Step ==
    /\ rs[1].pc # "idle" => CallsLeft' < CallsLeft
    /\ rs'[1].i # rs[1].i =>
          \/ rs'[1].pc = "symbol" /\ rs'[1].i = rs[1].i + 1
          \/ rs[1].i = Len(WATCHLIST) /\ rs'[1].pc = "summary" /\ rs'[1].i = 0
    /\ rs'[1].pc = "summary" => rs[1].i = Len(WATCHLIST)
    /\ rs[1].pc = "summary" => rs'[1].pc = "idle"

\* C38: a weekday run terminates when every external call returns or fails:
\* the symbols of the watch-list are visited once each, in order, every step
\* of a visit uses up one of a bounded number of external calls, and after
\* the last symbol the run gives its summary and completes.
C38_Terminates ==
    /\ [][C38_Step]_vars
    /\ (rs[1].pc # "idle") ~> (rs[1].pc = "idle")

\* the last symbol of a run, with an exit under way after a failed call
C38_Witness ==
    /\ rs[1].pc = "sellSave"
    /\ rs[1].i = Len(WATCHLIST)
    /\ faults = MaxFaults
\* ---------------------------------------------------------------- C39
\* the trend of a result follows today's average alone
TrendOfTodayAlone ==
    eval.sentimentData.recentTrend # "none" =>
        /\ eval.sentimentData.recentTrend = "IMPROVING"
              <=> eval.sentimentData.avgSentiment > 30
        /\ eval.sentimentData.recentTrend = "DETERIORATING"
              <=> eval.sentimentData.avgSentiment < 0 - 30

\* C39 as stated: whenever processNews returned without an exception before
\* the evaluation, the window of yesterday is empty and the trend follows
\* today's average alone.
C39_YesterdayEmpty ==
    eval.processed \in {"ok", "empty"} =>
        /\ eval.yesterday = <<>>
        /\ TrendOfTodayAlone

\* C39: whenever processNews stored a batch of headlines (deleteMany and
\* insertMany done) on the day of the evaluation, the collection holds that
\* batch alone, all of it in the window of today, the window of yesterday is
\* empty, and the trend follows today's average alone.
C39_FreshNews ==
    eval.processed = "ok" =>
        /\ eval.yesterday = <<>>
        /\ Len(eval.today) = Len(eval.headlines)
        /\ eval.today # <<>>
        /\ eval.sentimentData.recentTrend # "none" =>
              /\ eval.sentimentData.newsCount = Len(eval.headlines)
              /\ eval.sentimentData.avgSentiment = SumOf(eval.today) \div Len(eval.today)
        /\ TrendOfTodayAlone

\* a stored batch with an average under -0.3: DETERIORATING
C39_Witness ==
    /\ eval.processed = "ok"
    /\ Len(eval.headlines) = MaxHeadlines
    /\ eval.sentimentData.recentTrend = "DETERIORATING"
    /\ eval.sentimentData.avgSentiment < 0 - 30
\* ---------------------------------------------------------------- C40
\* the entries pushed so far that are within two minutes of the latest push
RetainedOfPushed ==
    LET latest == eval.pushed[Len(eval.pushed)].timestamp
        Recent(item) == latest - item.timestamp <= 120000
    IN IF eval.pushed = <<>> THEN <<>> ELSE SelectSeq(eval.pushed, Recent)

\* the positions of priceHistory that are not older than a minute
WithinMinute ==
    {n \in DOMAIN eval.priceHistory : eval.now - eval.priceHistory[n].timestamp <= 60000}

\* C40: with clock readings that never go back, priceHistory is ordered by
\* timestamp and holds exactly the pushed entries within 120000 ms of the
\* latest push; getLatestPrice returns the price pushed last, null when
\* nothing was pushed; getLastMinutePrice returns the price of the oldest
\* retained entry not older than 60000 ms, null when there is none.
C40_PriceHistory ==
    /\ \A n \in 1..(Len(eval.priceHistory) - 1) :
          eval.priceHistory[n].timestamp <= eval.priceHistory[n + 1].timestamp
    /\ eval.priceHistory = RetainedOfPushed
    /\ eval.query = "getLatestPrice" =>
          eval.result = IF eval.pushed = <<>> THEN NoValue
                        ELSE eval.pushed[Len(eval.pushed)].price
    /\ eval.query = "getLastMinutePrice" =>
          IF WithinMinute = {} THEN eval.result = NoValue
          ELSE \E n \in WithinMinute :
                  /\ \A k \in WithinMinute : n <= k
                  /\ eval.result = eval.priceHistory[n].price

\* an entry pushed exactly two minutes before the latest push is retained,
\* one pushed earlier is gone, and the query of the last minute returned the
\* price pushed a minute ago, not the latest one
C40_Witness ==
    /\ Len(eval.pushed) = 4
    /\ Len(eval.priceHistory) = 3
    /\ eval.priceHistory[3].timestamp - eval.priceHistory[1].timestamp = 120000
    /\ eval.query = "getLastMinutePrice"
    /\ eval.now = eval.priceHistory[3].timestamp
    /\ eval.result = eval.priceHistory[2].price
    /\ eval.result # eval.priceHistory[3].price
====
